---- MODULE Spec2Model ----
(***************************************************************************)
(* A model of the stock scanner's core: the rule validator and compiler,   *)
(* the compiled predicates, required_bars, the result cache, the scan      *)
(* loop run_scan and the POST /update refresh gate.                        *)
(*                                                                         *)
(* Python values are modelled by what the code inspects of them:           *)
(*  - a JSON value is a record [t, k, n, v]: its type t ("dict", "list",   *)
(*    "num", "str"), the key k it is stored under in its parent dict,      *)
(*    its number n, and its children v (a dict's entries in insertion      *)
(*    order, a list's items);                                              *)
(*  - an f-string column name "SMA_<p>" is the tuple <<"SMA", p>>;         *)
(*  - a float is an integer or NaN, [nan, x]; arithmetic is exact;         *)
(*  - an exception is the name of its class.                               *)
(***************************************************************************)
EXTENDS Integers, Sequences, FiniteSets, TLC

VARIABLES
  \* rule validation / compilation / evaluation
  rule, vres, bres, df, pres,
  \* required_bars
  bars_config, bars,
  \* the result cache: the module's two dicts, time.time(), and for the
  \* cache API called on its own the last call (call), what get_cached returned
  \* (ret) and, per key, the table and time of the last set_cache since the
  \* last clear_cache (stored)
  _CACHE, _CACHE_TS, now, call, ret, stored,
  \* the price store: the number of daily bars held for each symbol
  prices,
  \* run_scan: its arguments, its loop position pos (the next symbol), its
  \* results list, where it is (spc), the exception that left it (scan_exc),
  \* and what each iteration did (log)
  symbols, timeframe, indicator_config, rule_fn, min_bars,
  pos, results, spc, scan_exc, log,
  \* POST /update: the module's update_state dict, the system_meta row
  \* last_price_update (0 while unset), and per request where its handler is
  \* (upc), the status it answered (reply) and the background task it
  \* scheduled (task)
  update_state, last_price_update, upc, reply, task,
  \* get_tf_candles on a table of daily bars: the table given (daily) and
  \* what the call returned (weekly)
  daily, weekly,
  \* make_cache_key called for one symbol and timeframe with two indicator
  \* configs (cfg_a, cfg_b): the keys it returned (key_a, key_b)
  cfg_a, cfg_b, key_a, key_b,
  \* one iteration of run_scan's loop with the tables as objects: the
  \* objects' values by identity (heap; here _CACHE holds identities), where
  \* the iteration is (ipc), its symbol (isym), whether the lookup hit (ihit),
  \* the locals cached and df (cached_ref, df_ref; 0 when unbound), the
  \* functions it has called (called), the indicator calls apply_indicators has
  \* left (pending), the last indicator call (ind) and how the iteration ended
  \* (iend)
  heap, ipc, isym, ihit, cached_ref, df_ref, called, pending, ind, iend,
  \* POST /scan: the request body (payload), the symbols the store lists for a
  \* known universe (members) and what scan_stocks answered (response)
  payload, members, response,
  \* the cache API called from concurrent scans, a statement a step: per thread
  \* the line it is at (tpc), the key and table of its call (targ), get_cached's
  \* local ts (tts) and what its last call returned or raised (tret); the
  \* (key, table) pairs of every set_cache call that has started (written) and,
  \* per key held by _CACHE, the time its table was assigned (wrote)
  tpc, targ, tts, tret, written, wrote,
  \* apply_indicators: the config, the table and whether the call returned
  ind_config, ind_df, ind_done

varsRule == <<rule, vres, bres, df, pres>>
varsBars == <<bars_config, bars>>
varsCache == <<_CACHE, _CACHE_TS, now>>
varsApi == <<call, ret, stored>>
varsArgs == <<symbols, timeframe, indicator_config, rule_fn, min_bars>>
varsScan == <<varsArgs, pos, results, spc, scan_exc, log>>
varsUpdate == <<update_state, last_price_update, upc, reply, task>>
varsTf == <<daily, weekly>>
varsKey == <<cfg_a, cfg_b, key_a, key_b>>
varsObj == <<heap, ipc, isym, ihit, cached_ref, df_ref, called, pending, ind, iend>>
varsEntry == <<payload, members, response>>
varsRace == <<tpc, targ, tts, tret, written, wrote>>
varsInd == <<ind_config, ind_df, ind_done>>
vars == <<varsRule, varsBars, varsCache, varsApi, prices, varsScan, varsUpdate, varsTf, varsKey, varsObj, varsEntry, varsRace, varsInd>>

\* ------------------------------------------------------------------ bounds
MaxDepth == 2
MaxRows == 2
MaxPeriod == 2
MaxList == 2
MaxTicks == 2
MaxBars == 2
MaxSymbols == 2
MaxExpiries == 1
MaxRequests == 2
MaxDays == 3
MaxKinds == 3
MaxThreads == 2

\* ------------------------------------------------------------ JSON values
Num(x) == [t |-> "num", k |-> "", n |-> x, v |-> <<>>]
Str == [t |-> "str", k |-> "", n |-> 0, v |-> <<>>]
List(items) == [t |-> "list", k |-> "", n |-> 0, v |-> items]
Dict(entries) == [t |-> "dict", k |-> "", n |-> 0, v |-> entries]
Entry(key, val) == [val EXCEPT !.k = key]
NoJson == [t |-> "none", k |-> "", n |-> 0, v |-> <<>>]

\* `key in d` for a dict d
HasKey(d, key) == \E i \in 1..Len(d.v) : d.v[i].k = key
\* d[key]
Get(d, key) == d.v[CHOOSE i \in 1..Len(d.v) : d.v[i].k = key]
\* the keys of a dict
Keys(d) == {d.v[i].k : i \in 1..Len(d.v)}
\* the set of elements of a sequence
Range(s) == {s[i] : i \in 1..Len(s)}

\* ------------------------------------------------------- validator registry
RULE_DEFINITIONS ==
  [close_near_sma   |-> [required |-> <<"period">>, optional |-> <<"tolerance">>],
   rising_ma        |-> [required |-> <<"ma">>, optional |-> <<"lookback">>],
   crossing_up      |-> [required |-> <<"ma">>, optional |-> <<>>],
   rsi_above        |-> [required |-> <<"rsi", "level">>, optional |-> <<>>],
   close_above_open |-> [required |-> <<>>, optional |-> <<>>]]

\* validate_rule's leaf part (validator.py lines 19-39): "ok" or the exception
validate_leaf(r) ==
  IF Len(r.v) # 1 THEN "ValueError"
  ELSE LET name == r.v[1].k
           cfg == r.v[1]
       IN IF name \notin DOMAIN RULE_DEFINITIONS THEN "ValueError"
          ELSE IF cfg.t # "dict" THEN "ValueError"
          ELSE LET schema == RULE_DEFINITIONS[name]
               IN IF \E i \in 1..Len(schema.required) :
                       ~HasKey(cfg, schema.required[i])
                  THEN "ValueError"
                  ELSE IF \E key \in Keys(cfg) :
                            key \notin Range(schema.required \o schema.optional)
                  THEN "ValueError"
                  ELSE "ok"

RECURSIVE validate_rule(_)
validate_rule(r) ==
  IF r.t # "dict" THEN "ValueError"
  ELSE IF HasKey(r, "AND") \/ HasKey(r, "OR")
  THEN LET key == IF HasKey(r, "AND") THEN "AND" ELSE "OR"
           rules == Get(r, key)
       IN IF rules.t # "list" \/ Len(rules.v) = 0 THEN "ValueError"
          ELSE IF \E i \in 1..Len(rules.v) : validate_rule(rules.v[i]) # "ok"
          THEN "ValueError"
          ELSE "ok"
  ELSE validate_leaf(r)

\* ------------------------------------------------------ compiled predicates
\* A predicate closure: the factory (op), the column it reads, its numeric
\* argument (tolerance_pct, lookback, level) and, for AND/OR, its children.
Pred(op, col, arg, kids) == [op |-> op, col |-> col, arg |-> arg, kids |-> kids]
NoPred == Pred("none", <<>>, 0, <<>>)

sma_col(period) == <<"SMA", period>>
ema_col(period) == <<"EMA", period>>
rsi_col(period) == <<"RSI", period>>
\* base = f"{fast}_{slow}_{signal}"; f"MACD_{base}", f"MACD_SIGNAL_{base}"
macd_cols(fast, slow, signal) ==
  <<<<"MACD", fast, slow, signal>>, <<"MACD_SIGNAL", fast, slow, signal>>>>

near_ma(ma_col, tolerance_pct) == Pred("near_ma", ma_col, tolerance_pct, <<>>)
rising_ma(ma_col, lookback) == Pred("rising_ma", ma_col, lookback, <<>>)
crossing_up(ma_col) == Pred("crossing_up", ma_col, 0, <<>>)
rsi_above(rsi_column, level) == Pred("rsi_above", rsi_column, level, <<>>)
rsi_below(rsi_column, level) == Pred("rsi_below", rsi_column, level, <<>>)
AND(rules) == Pred("AND", <<>>, 0, rules)
OR(rules) == Pred("OR", <<>>, 0, rules)

\* The outcome of a compilation: st is "ok" or the exception, fn the closure.
Built(fn) == [st |-> "ok", fn |-> fn]
Raised(exc) == [st |-> exc, fn |-> NoPred]
NotBuilt == [st |-> "none", fn |-> NoPred]

\* cfg[key]: a dict without the key raises KeyError, a list, string or number
\* indexed by a string raises TypeError
Subscript(cfg, key) ==
  IF cfg.t # "dict" THEN "TypeError"
  ELSE IF ~HasKey(cfg, key) THEN "KeyError"
  ELSE "ok"
\* cfg.get(key, default) on a dict
GetOr(cfg, key, default) == IF HasKey(cfg, key) THEN Get(cfg, key).n ELSE default

\* The names RULE_MAP compiles.
RULE_MAP == {"near_sma", "rising_sma", "crossing_sma", "rsi_above", "rsi_below"}

\* RULE_MAP[rule_name](cfg): the lambda's arguments are evaluated in order.
\* The default tolerance_pct 1.0 and lookback 3 are those of builder.py.
RuleMapCall(rule_name, cfg) ==
  IF Subscript(cfg, "period") # "ok" THEN Raised(Subscript(cfg, "period"))
  ELSE LET period == Get(cfg, "period").n
       IN CASE rule_name = "near_sma" ->
                 Built(near_ma(sma_col(period), GetOr(cfg, "tolerance_pct", 1)))
            [] rule_name = "rising_sma" ->
                 Built(rising_ma(sma_col(period), GetOr(cfg, "lookback", 3)))
            [] rule_name = "crossing_sma" ->
                 Built(crossing_up(sma_col(period)))
            [] rule_name = "rsi_above" ->
                 IF Subscript(cfg, "level") # "ok" THEN Raised(Subscript(cfg, "level"))
                 ELSE Built(rsi_above(rsi_col(period), Get(cfg, "level").n))
            [] rule_name = "rsi_below" ->
                 IF Subscript(cfg, "level") # "ok" THEN Raised(Subscript(cfg, "level"))
                 ELSE Built(rsi_below(rsi_col(period), Get(cfg, "level").n))

\* What `for r in x` iterates over: a list's items, a dict's keys and a
\* string's characters (strings both); a number is not iterable.
IterItems(x) ==
  CASE x.t = "list" -> x.v
    [] x.t = "dict" -> IF Len(x.v) = 0 THEN <<>> ELSE [i \in 1..Len(x.v) |-> Str]
    [] x.t = "str" -> <<Str>>
    [] OTHER -> <<>>

RECURSIVE build_rule(_)
MapBuild(items) ==
  IF Len(items) = 0 THEN <<>> ELSE [i \in 1..Len(items) |-> build_rule(items[i])]
\* [build_rule(r) for r in rule_json[key]]: the first child that raises
\* ends the comprehension with its exception.
BuildChildren(x) ==
  IF x.t = "num" THEN Raised("TypeError")
  ELSE LET items == IterItems(x)
           built == MapBuild(items)
           bad == {i \in 1..Len(items) : built[i].st # "ok"}
       IN IF bad # {}
          THEN Raised(built[CHOOSE i \in bad : \A j \in bad : i <= j].st)
          ELSE [st |-> "ok", fn |-> NoPred,
                fns |-> IF Len(items) = 0 THEN <<>>
                        ELSE [i \in 1..Len(items) |-> built[i].fn]]

build_rule(rule_json) ==
  IF rule_json.t # "dict" THEN Raised("ValueError")
  ELSE IF HasKey(rule_json, "AND")
  THEN LET rules == BuildChildren(Get(rule_json, "AND"))
       IN IF rules.st # "ok" THEN Raised(rules.st) ELSE Built(AND(rules.fns))
  ELSE IF HasKey(rule_json, "OR")
  THEN LET rules == BuildChildren(Get(rule_json, "OR"))
       IN IF rules.st # "ok" THEN Raised(rules.st) ELSE Built(OR(rules.fns))
  ELSE IF Len(rule_json.v) # 1 THEN Raised("ValueError")
  ELSE LET rule_name == rule_json.v[1].k
           cfg == rule_json.v[1]
       IN IF rule_name \notin RULE_MAP THEN Raised("ValueError")
          ELSE RuleMapCall(rule_name, cfg)

\* ------------------------------------------------------------- bar tables
\* A float: NaN or a number.
Val(x) == [nan |-> FALSE, x |-> x]
NaN == [nan |-> TRUE, x |-> 0]
\* A bar table: the close column, the set of indicator columns and their data.
Table(close, cols, data) == [close |-> close, cols |-> cols, data |-> data]
EmptyTable == Table(<<>>, {}, <<>>)

\* _last(df) / _prev(df): the row's position, 0 for None
_last(d) == IF Len(d.close) < 1 THEN 0 ELSE Len(d.close)
_prev(d) == IF Len(d.close) < 2 THEN 0 ELSE Len(d.close) - 1

\* row[col] of a row of d: KeyError when d has no such column
Cell(d, row, col) ==
  IF col \in d.cols THEN [err |-> "ok", val |-> d.data[col][row]]
  ELSE [err |-> "KeyError", val |-> NaN]

PyBool(b) == IF b THEN "True" ELSE "False"
Abs(x) == IF x < 0 THEN 0 - x ELSE x
\* a > b and a < b on floats: False when either is NaN
Gt(a, b) == ~a.nan /\ ~b.nan /\ a.x > b.x
Lt(a, b) == ~a.nan /\ ~b.nan /\ a.x < b.x

\* the comparison of near_ma with < in place of <=
WithinPctStrict(price, ma, tolerance_pct) ==
  IF ma > 0 THEN Abs(price - ma) * 100 < tolerance_pct * ma
  ELSE Abs(price - ma) * 100 > tolerance_pct * ma
\* abs(price - ma) / ma * 100 <= tolerance_pct for ma # 0, by cross
\* multiplication (the division by a negative ma turns the inequality)
WithinPct(price, ma, tolerance_pct) ==
  IF ma > 0 THEN Abs(price - ma) * 100 <= tolerance_pct * ma
  ELSE Abs(price - ma) * 100 >= tolerance_pct * ma

\* near_ma's closure _rule(df)
near_ma_rule(p, d) ==
  LET last == _last(d)
  IN IF last = 0 THEN "False"
     ELSE IF p.col \notin d.cols THEN "False"
     ELSE LET ma == Cell(d, last, p.col)
          IN IF ma.err # "ok" THEN ma.err
             ELSE IF ma.val.nan \/ ma.val.x = 0 THEN "False"
             ELSE LET price == d.close[last]
                  IN PyBool(~price.nan /\ WithinPct(price.x, ma.val.x, p.arg))

\* Series.tail(n): the last n rows, none for n = 0, and for n < 0 all rows
\* but the first -n
SeriesTail(s, n) ==
  IF n >= 0
  THEN SubSeq(s, (IF Len(s) - n < 0 THEN 0 ELSE Len(s) - n) + 1, Len(s))
  ELSE SubSeq(s, (IF 0 - n > Len(s) THEN Len(s) ELSE 0 - n) + 1, Len(s))

\* rising_ma's closure _rule(df)
rising_ma_rule(p, d) ==
  IF p.col \notin d.cols THEN "False"
  ELSE IF Len(d.close) < p.arg + 1 THEN "False"
  ELSE LET recent == SeriesTail(d.data[p.col], p.arg + 1)
       IN IF \E i \in 1..Len(recent) : recent[i].nan THEN "False"
          ELSE PyBool(\A i \in 2..Len(recent) : recent[i].x > recent[i - 1].x)

\* crossing_up's closure without the test of the previous row
crossing_up_rule_last_only(p, d) ==
  LET last == _last(d)
      prev == _prev(d)
  IN IF last = 0 \/ prev = 0 THEN "False"
     ELSE IF p.col \notin d.cols THEN "False"
     ELSE LET lastMa == Cell(d, last, p.col)
              prevMa == Cell(d, prev, p.col)
          IN IF lastMa.err # "ok" THEN lastMa.err
             ELSE IF lastMa.val.nan \/ prevMa.val.nan THEN "False"
             ELSE PyBool(Gt(d.close[last], lastMa.val))
\* crossing_up's closure _rule(df)
crossing_up_rule(p, d) ==
  LET last == _last(d)
      prev == _prev(d)
  IN IF last = 0 \/ prev = 0 THEN "False"
     ELSE IF p.col \notin d.cols THEN "False"
     ELSE LET lastMa == Cell(d, last, p.col)
              prevMa == Cell(d, prev, p.col)
          IN IF lastMa.err # "ok" THEN lastMa.err
             ELSE IF lastMa.val.nan \/ prevMa.val.nan THEN "False"
             ELSE PyBool(Lt(d.close[prev], prevMa.val) /\ Gt(d.close[last], lastMa.val))

\* rsi_above's closure without its column check
rsi_above_rule_unchecked(p, d) ==
  LET last == _last(d)
  IN IF last = 0 THEN "False"
     ELSE LET rsi == Cell(d, last, p.col)
          IN IF rsi.err # "ok" THEN rsi.err
             ELSE PyBool(Gt(rsi.val, Val(p.arg)))

\* rsi_above's closure _rule(df)
rsi_above_rule(p, d) ==
  LET last == _last(d)
  IN IF last = 0 THEN "False"
     ELSE IF p.col \notin d.cols THEN "False"
     ELSE LET rsi == Cell(d, last, p.col)
          IN IF rsi.err # "ok" THEN rsi.err
             ELSE PyBool(Gt(rsi.val, Val(p.arg)))

\* rsi_below's closure _rule(df)
rsi_below_rule(p, d) ==
  LET last == _last(d)
  IN IF last = 0 THEN "False"
     ELSE IF p.col \notin d.cols THEN "False"
     ELSE LET rsi == Cell(d, last, p.col)
          IN IF rsi.err # "ok" THEN rsi.err
             ELSE PyBool(Lt(rsi.val, Val(p.arg)))

\* Calling a closure on a table: "True", "False" or the exception it raises.
\* all(...) stops at the first child that is not true, any(...) at the first
\* that is not false; a child that raises before that ends the call.
RECURSIVE Call(_, _)
\* all(...) that looks at its first element only
AllFirst(kids, i, d) ==
  IF i > Len(kids) THEN "True" ELSE Call(kids[i], d)
AllFrom(kids, i, d) ==
  LET bad == {j \in i..Len(kids) : Call(kids[j], d) # "True"}
  IN IF bad = {} THEN "True"
     ELSE Call(kids[CHOOSE j \in bad : \A m \in bad : j <= m], d)
AnyFrom(kids, i, d) ==
  LET hit == {j \in i..Len(kids) : Call(kids[j], d) # "False"}
  IN IF hit = {} THEN "False"
     ELSE Call(kids[CHOOSE j \in hit : \A m \in hit : j <= m], d)
Call(p, d) ==
  CASE p.op = "near_ma" -> near_ma_rule(p, d)
    [] p.op = "rising_ma" -> rising_ma_rule(p, d)
    [] p.op = "crossing_up" -> crossing_up_rule(p, d)
    [] p.op = "rsi_above" -> rsi_above_rule(p, d)
    [] p.op = "rsi_below" -> rsi_below_rule(p, d)
    [] p.op = "AND" -> AllFrom(p.kids, 1, d)
    [] p.op = "OR" -> AnyFrom(p.kids, 1, d)

\* ----------------------------------------------------------- required_bars
\* config.get(kind, [])
ConfigList(config, kind) == IF HasKey(config, kind) THEN Get(config, kind).v ELSE <<>>
PyMax(a, b) == IF b > a THEN b ELSE a

\* for p in ps: bars = max(bars, p)
RECURSIVE MaxLoop(_, _)
MaxLoop(b, ps) ==
  IF Len(ps) = 0 THEN b ELSE MaxLoop(PyMax(b, Head(ps).n), Tail(ps))
\* for fast, slow, signal in triples: bars = max(bars, slow)
RECURSIVE MaxSlowLoop(_, _)
MaxSlowLoop(b, triples) ==
  IF Len(triples) = 0 THEN b
  ELSE MaxSlowLoop(PyMax(b, Head(triples).v[2].n), Tail(triples))

\* required_bars taking the MACD fast period in place of the slow one
required_bars_fast(config) ==
  LET triples == ConfigList(config, "macd")
      fasts == IF Len(triples) = 0 THEN <<>>
               ELSE [i \in 1..Len(triples) |-> triples[i].v[1]]
      periods == ConfigList(config, "sma") \o ConfigList(config, "ema")
                   \o ConfigList(config, "rsi") \o fasts
  IN MaxLoop(0, periods) + 5

required_bars(config) ==
  LET afterSma == MaxLoop(0, ConfigList(config, "sma"))
      afterEma == MaxLoop(afterSma, ConfigList(config, "ema"))
      afterRsi == MaxLoop(afterEma, ConfigList(config, "rsi"))
      afterMacd == MaxSlowLoop(afterRsi, ConfigList(config, "macd"))
  IN afterMacd + 5

\* scan_stocks: min_bars = max(required_bars(indicators), 50)
MIN_BARS_FLOOR == 50
scan_min_bars(indicators) == PyMax(required_bars(indicators), MIN_BARS_FLOOR)

\* ------------------------------------------------------------ result cache
DEFAULT_TTL == 60 * 30
\* The 0 of `_CACHE_TS.get(key, 0)` on the model's clock: `now` counts the
\* seconds of time.time() from the start of the process, which is later than
\* time 0 by more than the TTL.
EPOCH == 0 - (DEFAULT_TTL + 1)

\* sorted(config.keys()) for the indicator kinds
SortedKinds == <<"ema", "macd", "rsi", "sma">>
\* _hash_config that takes the items in the dict's own order
_hash_config_unsorted(config) ==
  IF Len(config.v) = 0 THEN [digest |-> "no-indicators", items |-> <<>>]
  ELSE [digest |-> "md5",
        items |-> [i \in 1..Len(config.v) |->
                     LET x == config.v[i]
                     IN IF x.t = "list" THEN [x EXCEPT !.t = "tuple"] ELSE x]]
\* _hash_config: "no-indicators" for an empty config, else the digest of
\* repr(items), items being the (key, value) pairs in sorted key order with a
\* list value turned into a tuple. The digest is taken to be injective, so
\* it is modelled by the items themselves.
_hash_config(config) ==
  IF Len(config.v) = 0 THEN [digest |-> "no-indicators", items |-> <<>>]
  ELSE LET Present(kind) == HasKey(config, kind)
           kinds == SelectSeq(SortedKinds, Present)
       IN [digest |-> "md5",
           items |-> [i \in 1..Len(kinds) |->
                        LET x == Get(config, kinds[i])
                        IN IF x.t = "list" THEN [x EXCEPT !.t = "tuple"] ELSE x]]

\* a cache key that leaves the symbol out
make_cache_key_shared(symbol, tf, config) == <<"", tf, _hash_config(config)>>
\* f"{symbol}|{tf}|{cfg_hash}" (symbols and timeframes hold no "|")
make_cache_key(symbol, tf, config) == <<symbol, tf, _hash_config(config)>>

\* dict.pop(key, None) and dict[key] = value on a dict held as a function
Pop(dict, key) == [x \in DOMAIN dict \ {key} |-> dict[x]]
Put(dict, key, value) ==
  [x \in DOMAIN dict \cup {key} |-> IF x = key THEN value ELSE dict[x]]
EmptyDict == <<>>

\* A scan's bar table: the symbol it was loaded for, its number of rows and
\* the names of its indicator columns.
ScanTable(symbol, rows, cols) == [sym |-> symbol, rows |-> rows, cols |-> cols]
None == [hit |-> FALSE, df |-> ScanTable("", 0, {})]
Some(table) == [hit |-> TRUE, df |-> table]

\* get_cached that also expires an entry whose age equals the TTL
get_cached_ge(cache, cache_ts, time, symbol, tf, config) ==
  LET key == make_cache_key(symbol, tf, config)
  IN IF key \notin DOMAIN cache
     THEN [ret |-> None, cache |-> cache, cache_ts |-> cache_ts]
     ELSE LET ts == IF key \in DOMAIN cache_ts THEN cache_ts[key] ELSE EPOCH
          IN IF time - ts >= DEFAULT_TTL
             THEN [ret |-> None, cache |-> Pop(cache, key), cache_ts |-> Pop(cache_ts, key)]
             ELSE [ret |-> Some(cache[key]), cache |-> cache, cache_ts |-> cache_ts]

\* get_cached that reports an expired entry without removing its timestamp
get_cached_keep_ts(cache, cache_ts, time, symbol, tf, config) ==
  LET key == make_cache_key(symbol, tf, config)
  IN IF key \notin DOMAIN cache
     THEN [ret |-> None, cache |-> cache, cache_ts |-> cache_ts]
     ELSE LET ts == IF key \in DOMAIN cache_ts THEN cache_ts[key] ELSE EPOCH
          IN IF time - ts > DEFAULT_TTL
             THEN [ret |-> None, cache |-> Pop(cache, key), cache_ts |-> cache_ts]
             ELSE [ret |-> Some(cache[key]), cache |-> cache, cache_ts |-> cache_ts]

\* get_cached at time `time` on the dicts cache and cache_ts: what it
\* returns and the dicts it leaves
get_cached(cache, cache_ts, time, symbol, tf, config) ==
  LET key == make_cache_key(symbol, tf, config)
  IN IF key \notin DOMAIN cache
     THEN [ret |-> None, cache |-> cache, cache_ts |-> cache_ts]
     ELSE LET ts == IF key \in DOMAIN cache_ts THEN cache_ts[key] ELSE EPOCH
          IN IF time - ts > DEFAULT_TTL
             THEN [ret |-> None, cache |-> Pop(cache, key), cache_ts |-> Pop(cache_ts, key)]
             ELSE [ret |-> Some(cache[key]), cache |-> cache, cache_ts |-> cache_ts]

\* set_cache at time `time`: the dicts it leaves
set_cache(cache, cache_ts, time, symbol, tf, config, table) ==
  LET key == make_cache_key(symbol, tf, config)
  IN [cache |-> Put(cache, key, table), cache_ts |-> Put(cache_ts, key, time)]

\* -------------------------------------------------------------- scan engine
\* The day a symbol's d-th daily bar is of: its ISO week and its month. The
\* store holds a sparse history: two trading days a week, three a month.
TradingDay(d) == [week |-> d \div 2, month |-> d \div 3]

\* df.empty, len(df)
IsEmpty(table) == table.rows = 0

\* load_prices: the symbol's bars in date order, none for an unknown symbol
load_prices(store, symbol) ==
  ScanTable(symbol, IF symbol \in DOMAIN store THEN store[symbol] ELSE 0, {})

\* get_tf_candles on a table of daily bars: the table, or the exception
get_tf_candles(table, tf) ==
  IF IsEmpty(table) THEN [exc |-> "none", df |-> table]
  ELSE IF tf = "1D" THEN [exc |-> "none", df |-> table]
  ELSE IF tf = "1W"
  THEN [exc |-> "none",
        df |-> [table EXCEPT !.rows = Cardinality({TradingDay(d).week : d \in 1..table.rows})]]
  ELSE IF tf = "1M"
  THEN [exc |-> "none",
        df |-> [table EXCEPT !.rows = Cardinality({TradingDay(d).month : d \in 1..table.rows})]]
  ELSE [exc |-> "ValueError", df |-> table]

\* indicators.py: the column each call adds
add_sma(table, period) == [table EXCEPT !.cols = @ \cup {<<"SMA", period>>}]
add_ema(table, length) == [table EXCEPT !.cols = @ \cup {<<"ema", length>>}]
add_rsi(table, length) == [table EXCEPT !.cols = @ \cup {<<"rsi", length>>}]
\* add_macd's three column names: f"macd_{fast}_{slow}",
\* f"macd_signal_{signal}", f"macd_hist"
macd_col(fast, slow) == <<"macd", fast, slow>>
signal_col(signal) == <<"macd_signal", signal>>
hist_col == <<"macd_hist">>
add_macd(table, fast, slow, signal) ==
  IF macd_col(fast, slow) \in table.cols THEN table
  ELSE [table EXCEPT !.cols = @ \cup {macd_col(fast, slow), signal_col(signal), hist_col}]

\* for item in items: df = add(df, item)
RECURSIVE AddAll(_, _, _)
AddAll(table, kind, items) ==
  IF Len(items) = 0 THEN table
  ELSE LET x == Head(items)
           next == CASE kind = "sma" -> add_sma(table, x.n)
                     [] kind = "ema" -> add_ema(table, x.n)
                     [] kind = "rsi" -> add_rsi(table, x.n)
                     [] kind = "macd" -> add_macd(table, x.v[1].n, x.v[2].n, x.v[3].n)
       IN AddAll(next, kind, Tail(items))

apply_indicators(table, config) ==
  IF IsEmpty(table) THEN table
  ELSE AddAll(AddAll(AddAll(AddAll(table, "sma", ConfigList(config, "sma")),
                            "ema", ConfigList(config, "ema")),
                     "rsi", ConfigList(config, "rsi")),
              "macd", ConfigList(config, "macd"))

\* rule_fn(df): what the callable returns or raises on the symbol's table
RuleCall(fn, table) == fn.out[table.sym]

\* `except Exception` that catches ValueError alone
CaughtValueError(exc) == exc = "ValueError"
\* `except Exception`: every exception raised in the try block is caught
Caught(exc) == TRUE

\* results.append(symbol) that puts the symbol first
PutFirst(list, symbol) == <<symbol>> \o list
\* results.append(symbol)
ListAppend(list, symbol) == Append(list, symbol)

\* What one iteration of run_scan's loop does for `symbol`: the dicts it
\* leaves, whether the lookup hit, and how it ends: "match", "nomatch",
\* "skip_empty", "skip_short" or "error" with the exception raised. `fault`
\* is the stage at which the environment makes a call fail (the database, the
\* memory), "none" for no failure.
Ended(cache, cache_ts, hit, outcome, exc) ==
  [cache |-> cache, cache_ts |-> cache_ts, hit |-> hit, outcome |-> outcome, exc |-> exc]
EvalRule(cache, cache_ts, hit, fn, table, fault) ==
  IF fault = "rule" THEN Ended(cache, cache_ts, hit, "error", "RuntimeError")
  ELSE IF RuleCall(fn, table) \notin {"True", "False"}
  THEN Ended(cache, cache_ts, hit, "error", RuleCall(fn, table))
  ELSE IF RuleCall(fn, table) = "True"
  THEN Ended(cache, cache_ts, hit, "match", "none")
  ELSE Ended(cache, cache_ts, hit, "nomatch", "none")
scan_iteration(cache, cache_ts, time, store, symbol, tf, config, fn, mb, fault) ==
  IF fault = "cache" THEN Ended(cache, cache_ts, FALSE, "error", "TypeError")
  ELSE
  LET got == get_cached(cache, cache_ts, time, symbol, tf, config)
  IN IF got.ret.hit
     THEN EvalRule(got.cache, got.cache_ts, TRUE, fn, got.ret.df, fault)
     ELSE IF fault = "load"
     THEN Ended(got.cache, got.cache_ts, FALSE, "error", "OperationalError")
     ELSE
     LET loaded == load_prices(store, symbol)
     IN IF IsEmpty(loaded)
        THEN Ended(got.cache, got.cache_ts, FALSE, "skip_empty", "none")
        ELSE IF fault = "resample"
        THEN Ended(got.cache, got.cache_ts, FALSE, "error", "MemoryError")
        ELSE
        LET candles == get_tf_candles(loaded, tf)
        IN IF candles.exc # "none"
           THEN Ended(got.cache, got.cache_ts, FALSE, "error", candles.exc)
           ELSE IF candles.df.rows < mb
           THEN Ended(got.cache, got.cache_ts, FALSE, "skip_short", "none")
           ELSE IF fault = "enrich"
           THEN Ended(got.cache, got.cache_ts, FALSE, "error", "MemoryError")
           ELSE
           LET enriched == apply_indicators(candles.df, config)
           IN IF enriched.rows < mb
              THEN Ended(got.cache, got.cache_ts, FALSE, "skip_short", "none")
              ELSE LET put == set_cache(got.cache, got.cache_ts, time,
                                        symbol, tf, config, enriched)
                   IN EvalRule(put.cache, put.cache_ts, FALSE, fn, enriched, fault)

\* ------------------------------------------------------- weekly resampling
\* A daily bar: its date, the ordinal of its day with day 1 = Monday
\* 2024-01-01, and its open, high, low, close and volume. The ISO years 2024
\* and 2025 have 52 weeks each.
Bar(date, open, high, low, close, volume) ==
  [date |-> date, open |-> open, high |-> high, low |-> low, close |-> close,
   volume |-> volume]
\* df.index.isocalendar(): the ISO year and week of a date
isocalendar(date) ==
  [year |-> 2024 + ((date - 1) \div 7) \div 52, week |-> (((date - 1) \div 7) % 52) + 1]
\* pd.Timestamp.fromisocalendar(y, w, weekday)
fromisocalendar(y, w, weekday) == ((y - 2024) * 52 + (w - 1)) * 7 + weekday

\* groupby's order of the group keys, by week number before year
KeyBeforeByWeek(a, b) == a.week < b.week \/ (a.week = b.week /\ a.year < b.year)
\* groupby([iso.year, iso.week]) sorts its group keys: (year, week) a comes
\* before b
KeyBefore(a, b) == a.year < b.year \/ (a.year = b.year /\ a.week < b.week)
RECURSIVE SortedKeys(_)
SortedKeys(keys) ==
  IF keys = {} THEN <<>>
  ELSE LET first == CHOOSE k \in keys : \A other \in keys \ {k} : KeyBefore(k, other)
       IN <<first>> \o SortedKeys(keys \ {first})

\* the aggregations "max", "min" and "sum" over a group's rows
RECURSIVE AggMax(_, _)
AggMax(rows, col) ==
  IF Len(rows) = 1 THEN rows[1][col]
  ELSE PyMax(rows[1][col], AggMax(Tail(rows), col))
RECURSIVE AggMin(_, _)
AggMin(rows, col) ==
  IF Len(rows) = 1 THEN rows[1][col]
  ELSE LET rest == AggMin(Tail(rows), col)
       IN IF rows[1][col] < rest THEN rows[1][col] ELSE rest
RECURSIVE AggSum(_, _)
AggSum(rows, col) ==
  IF Len(rows) = 0 THEN 0 ELSE rows[1][col] + AggSum(Tail(rows), col)

\* out.dropna(): the rows with a value in every column (the price store
\* holds no NULL: save_to_db drops the rows that have one)
dropna(rows) ==
  LET Whole(r) == \A col \in {"open", "high", "low", "close", "volume"} : r[col] \in Int
  IN SelectSeq(rows, Whole)

\* the "1W" branch of get_tf_candles: one row per (ISO year, ISO week) with
\* first open, max high, min low, last close and summed volume, indexed by
\* the week's Friday
weekly_candles(table) ==
  LET keys == SortedKeys({isocalendar(table[i].date) : i \in 1..Len(table)})
      Group(k) == LET In(b) == isocalendar(b.date) = k IN SelectSeq(table, In)
      Candle(k) ==
        LET g == Group(k)
        IN Bar(fromisocalendar(k.year, k.week, 5), g[1].open, AggMax(g, "high"),
               AggMin(g, "low"), g[Len(g)].close, AggSum(g, "volume"))
  IN dropna([j \in 1..Len(keys) |-> Candle(keys[j])])
NotResampled == [done |-> FALSE, out |-> <<>>]
NoKey == <<>>

\* ------------------------------------------------------- tables as objects
\* A new object holding `value`: the heap with it and its identity.
New(objects, value) == [heap |-> Append(objects, value), ref |-> Len(objects) + 1]
\* df.copy()
Copy(objects, ref) == New(objects, objects[ref])

\* The indicator calls of apply_indicators' four loops, in order.
IndicatorCalls(config) ==
  LET Of(kind) == LET items == ConfigList(config, kind)
                  IN IF Len(items) = 0 THEN <<>>
                     ELSE [i \in 1..Len(items) |-> [kind |-> kind, arg |-> items[i]]]
  IN Of("sma") \o Of("ema") \o Of("rsi") \o Of("macd")
\* add_sma / add_ema / add_rsi / add_macd on the object `ref`: each assigns
\* its columns on the table it was given (df[col] = ...) and returns that
\* table
add_indicator(objects, ref, c) ==
  [heap |-> [objects EXCEPT ![ref] = AddAll(@, c.kind, <<c.arg>>)], ref |-> ref]
NoCall == [given |-> 0, returned |-> 0, before |-> ScanTable("", 0, {})]

\* get_tf_candles on the object `ref`: the object it returns (the one it was
\* given for an empty table and for "1D", a new one for "1W" and "1M") or
\* the exception
tf_candles_object(objects, ref, tf) ==
  LET out == get_tf_candles(objects[ref], tf)
  IN IF out.exc # "none" THEN [exc |-> out.exc, heap |-> objects, ref |-> ref]
     ELSE IF IsEmpty(objects[ref]) \/ tf = "1D"
     THEN [exc |-> "none", heap |-> objects, ref |-> ref]
     ELSE [exc |-> "none", heap |-> New(objects, out.df).heap,
           ref |-> New(objects, out.df).ref]

\* `if cached is not None` sends every lookup to the load
after_lookup_always_load(hit) == "load"
\* `if cached is not None: df = cached.copy()`, `else: df = load_prices(...)`
after_lookup(hit) == IF hit THEN "copy" ELSE "load"

\* The objects no name refers to any longer are freed: the heap keeps the
\* cached objects, numbered in their old order.
Live(cache) == {cache[k] : k \in DOMAIN cache}
Rank(cache, ref) == Cardinality({x \in Live(cache) : x <= ref})
Collected(objects, cache) ==
  [i \in 1..Cardinality(Live(cache)) |->
     objects[CHOOSE r \in Live(cache) : Rank(cache, r) = i]]

\* ------------------------------------------------------------- POST /scan
\* The request body: payload.get("universe"), payload.get("rule"),
\* payload.get("timeframe", "1D"), payload.get("indicators", {}); a missing
\* universe is "" and a missing rule NoJson.
Payload(universe, rule_json, tf, indicators) ==
  [universe |-> universe, rule |-> rule_json, timeframe |-> tf,
   indicators |-> indicators]
NoPayload == Payload("", NoJson, "1D", Dict(<<>>))
\* `not x` is false for a JSON value x
Truthy(x) ==
  CASE x.t = "none" -> FALSE
    [] x.t = "num" -> x.n # 0
    [] x.t = "str" -> TRUE
    [] OTHER -> Len(x.v) > 0

\* The keys of config/universes.json.
UNIVERSES == {"all"}
\* get_symbols_by_universe(universe): [] for a universe the config does not
\* name, else the symbols the store lists for it
get_symbols_by_universe(universe, listed) ==
  IF universe \notin UNIVERSES THEN <<>> ELSE listed

\* run_scan's loop over syms: the cache it leaves, the matches and each
\* iteration's outcome in order, or the exception that left the loop.
Looped(exc, cache, cache_ts, matched, outcomes) ==
  [exc |-> exc, cache |-> cache, cache_ts |-> cache_ts, results |-> matched,
   log |-> outcomes]
\* an iteration that ended with `outcome` for `symbol`, before the rest
Before(symbol, outcome, rest) ==
  [rest EXCEPT !.results = IF outcome = "match" THEN <<symbol>> \o @ ELSE @,
               !.log = <<outcome>> \o @]
RECURSIVE scan_loop(_, _, _, _, _, _, _, _, _)
RECURSIVE scan_rest(_, _, _, _, _, _, _, _)
scan_loop(cache, cache_ts, time, store, syms, tf, config, fn, mb) ==
  IF Len(syms) = 0 THEN Looped("none", cache, cache_ts, <<>>, <<>>)
  ELSE scan_rest(scan_iteration(cache, cache_ts, time, store, Head(syms), tf, config,
                                fn, mb, "none"),
                 time, store, syms, tf, config, fn, mb)
\* the loop after the iteration of Head(syms) ended as `end`
scan_rest(end, time, store, syms, tf, config, fn, mb) ==
  IF end.outcome = "error" /\ ~Caught(end.exc)
  THEN Looped(end.exc, end.cache, end.cache_ts, <<>>, <<end.outcome>>)
  ELSE Before(Head(syms), end.outcome,
              scan_loop(end.cache, end.cache_ts, time, store, Tail(syms), tf, config,
                        fn, mb))
\* run_scan(symbols, timeframe, indicator_config, rule_fn, min_bars)
run_scan(cache, cache_ts, time, store, syms, tf, config, fn, mb) ==
  IF ~fn.callable
  THEN Looped("TypeError", cache, cache_ts, <<>>, <<>>)
  ELSE scan_loop(cache, cache_ts, time, store, syms, tf, config, fn, mb)

\* A callable rule_fn that answers out[symbol] for the symbol's table.
Callable(out) == [callable |-> TRUE, out |-> out]
\* What scan_stocks leaves: the exception it raised (st, "ok" when it
\* returned) and the call that raised it (stage), the count and the symbols
\* of the body it returned, the outcome of each symbol run_scan processed
\* (log) and the cache.
Answer(st, stage, matched, outcomes, cache, cache_ts) ==
  [st |-> st, stage |-> stage, count |-> Len(matched), symbols |-> matched,
   log |-> outcomes, cache |-> cache, cache_ts |-> cache_ts]
NoResponse == Answer("none", "", <<>>, <<>>, <<>>, <<>>)

\* scan_stocks with run_scan called before validate_rule
scan_stocks_scan_first(body, cache, cache_ts, time, store, listed, verdicts) ==
  IF body.universe = "" \/ ~Truthy(body.rule)
  THEN Answer("ok", "", <<>>, <<>>, cache, cache_ts)
  ELSE LET syms == get_symbols_by_universe(body.universe, listed)
           built == build_rule(body.rule)
       IN IF built.st # "ok"
          THEN Answer(built.st, "build_rule", <<>>, <<>>, cache, cache_ts)
          ELSE LET run == run_scan(cache, cache_ts, time, store, syms, body.timeframe,
                                   body.indicators, Callable(verdicts),
                                   scan_min_bars(body.indicators))
               IN IF run.exc # "none"
                  THEN Answer(run.exc, "run_scan", <<>>, run.log, run.cache,
                              run.cache_ts)
                  ELSE IF validate_rule(body.rule) # "ok"
                  THEN Answer(validate_rule(body.rule), "validate_rule", <<>>, run.log,
                              run.cache, run.cache_ts)
                  ELSE Answer("ok", "", run.results, run.log, run.cache, run.cache_ts)
\* scan_stocks(payload) (main.py lines 310-339); the predicate build_rule
\* returned answers for each symbol's table as `verdicts` says
scan_stocks(body, cache, cache_ts, time, store, listed, verdicts) ==
  IF body.universe = "" \/ ~Truthy(body.rule)
  THEN Answer("ok", "", <<>>, <<>>, cache, cache_ts)
  ELSE IF validate_rule(body.rule) # "ok"
  THEN Answer(validate_rule(body.rule), "validate_rule", <<>>, <<>>, cache, cache_ts)
  ELSE LET syms == get_symbols_by_universe(body.universe, listed)
           built == build_rule(body.rule)
       IN IF built.st # "ok"
          THEN Answer(built.st, "build_rule", <<>>, <<>>, cache, cache_ts)
          ELSE LET run == run_scan(cache, cache_ts, time, store, syms, body.timeframe,
                                   body.indicators, Callable(verdicts),
                                   scan_min_bars(body.indicators))
               IN IF run.exc # "none"
                  THEN Answer(run.exc, "run_scan", <<>>, run.log, run.cache,
                              run.cache_ts)
                  ELSE Answer("ok", "", run.results, run.log, run.cache, run.cache_ts)


\* ------------------------------------------------------------------ inputs
\* Rule trees given to validate_rule and build_rule.
LeafNames == {"close_near_sma", "rising_ma", "crossing_up", "rsi_above",
              "close_above_open", "near_sma", "rising_sma", "crossing_sma",
              "rsi_below", "bogus"}
KeyOrder == <<"period", "ma", "rsi", "level", "tolerance", "tolerance_pct",
              "lookback", "extra">>
\* The parameter keys tried for a leaf: those either registry reads for the
\* name (validator's required and optional, compiler's lookups) and one more.
KeyPool(name) ==
  CASE name = "close_near_sma" -> {"period", "tolerance", "extra"}
    [] name = "rising_ma" -> {"ma", "lookback", "extra"}
    [] name = "crossing_up" -> {"ma", "extra"}
    [] name = "rsi_above" -> {"rsi", "level", "period", "extra"}
    [] name = "close_above_open" -> {"extra"}
    [] name = "near_sma" -> {"period", "tolerance_pct", "extra"}
    [] name = "rising_sma" -> {"period", "lookback", "extra"}
    [] name = "crossing_sma" -> {"period", "extra"}
    [] name = "rsi_below" -> {"period", "level", "extra"}
    [] OTHER -> {"period"}

\* {key: value for key in keys}, in KeyOrder
Params(keys, value) ==
  LET Chosen(key) == key \in keys
      ks == SelectSeq(KeyOrder, Chosen)
  IN Dict(IF Len(ks) = 0 THEN <<>> ELSE [i \in 1..Len(ks) |-> Entry(ks[i], Num(value))])
LeafRule(name, cfg) == Dict(<<Entry(name, cfg)>>)
Node(op, children) == Dict(<<Entry(op, List(children))>>)

WellKeyedLeaves ==
  UNION {{LeafRule(name, Params(keys, 1)) : keys \in SUBSET KeyPool(name)} :
           name \in LeafNames}
OddConfigLeaves ==
  {LeafRule(name, cfg) : name \in LeafNames, cfg \in {Num(1), Str, List(<<>>)}}

ValidatorLeaf == LeafRule("close_above_open", Params({}, 1))
CompilerLeaf == LeafRule("near_sma", Params({"period"}, 1))
UnknownLeaf == LeafRule("bogus", Params({}, 1))
MissingLeaf == LeafRule("crossing_up", Params({}, 1))
ExtraLeaf == LeafRule("close_above_open", Params({"extra"}, 1))
NestLeaves == {ValidatorLeaf, CompilerLeaf, UnknownLeaf, MissingLeaf, ExtraLeaf}

\* AND/OR nodes of depth at most d over NestLeaves, one nested child each
RECURSIVE Trees(_)
Trees(d) ==
  IF d = 0 THEN NestLeaves
  ELSE LET T == Trees(d - 1)
       IN T \cup {Node(op, <<t>>) : op \in {"AND", "OR"}, t \in T}
            \cup {Node(op, <<l, t>>) : op \in {"AND", "OR"}, l \in NestLeaves, t \in T}
            \cup {Node(op, <<t, l>>) : op \in {"AND", "OR"}, l \in NestLeaves, t \in T}

\* Inputs outside the grammar.
Malformed ==
  {Num(1), Str, List(<<>>), Dict(<<>>),
   Dict(<<Entry("close_above_open", Params({}, 1)), Entry("near_sma", Params({"period"}, 1))>>),
   Dict(<<Entry("AND", List(<<ValidatorLeaf>>)), Entry("OR", List(<<UnknownLeaf>>))>>),
   Dict(<<Entry("OR", List(<<MissingLeaf>>)), Entry("AND", List(<<ValidatorLeaf>>))>>),
   Dict(<<Entry("AND", List(<<ValidatorLeaf>>)), Entry("bogus", Params({}, 1))>>),
   Dict(<<Entry("AND", List(<<CompilerLeaf>>)), Entry("OR", List(<<ExtraLeaf>>))>>),
   Dict(<<Entry("AND", Dict(<<>>))>>), Dict(<<Entry("AND", Num(1))>>),
   Dict(<<Entry("OR", Str)>>), Dict(<<Entry("OR", Params({"period"}, 1))>>),
   Node("AND", <<>>), Node("OR", <<>>), Node("AND", <<Num(1)>>)}

RuleInputs == WellKeyedLeaves \cup OddConfigLeaves \cup Trees(MaxDepth) \cup Malformed

\* Indicator configs given to required_bars.
PeriodLists(n) ==
  UNION {[1..m -> {Num(p) : p \in 1..MaxPeriod}] : m \in 0..n}
MacdLists ==
  {<<>>} \cup {<<List(<<Num(f), Num(s), Num(g)>>)>> :
                 f \in 1..MaxPeriod, s \in 1..MaxPeriod, g \in 1..MaxPeriod}
\* {"sma": sma, "ema": ema, "rsi": rsi, "macd": macd}, a key left out when
\* its list is empty
Config(sma, ema, rsi, macd) ==
  LET all == <<Entry("sma", List(sma)), Entry("ema", List(ema)),
               Entry("rsi", List(rsi)), Entry("macd", List(macd))>>
      Present(e) == Len(e.v) > 0
  IN Dict(SelectSeq(all, Present))
BarsConfigs ==
  {Config(sma, ema, rsi, macd) : sma \in PeriodLists(MaxList), ema \in PeriodLists(1),
                                 rsi \in PeriodLists(1), macd \in MacdLists}
\* Indicator configs with periods below, at and above scan_stocks' floor.
FloorConfigs ==
  {Config(<<Num(p)>>, <<>>, <<>>, <<>>) : p \in {20, 45, 46, 50, 200}}
  \cup {Config(<<>>, <<Num(9)>>, <<Num(14)>>, <<List(<<Num(12), Num(26), Num(9)>>)>>),
        Config(<<>>, <<>>, <<>>, <<List(<<Num(12), Num(60), Num(9)>>)>>)}

\* Rules build_rule compiles, given to the compiled predicate's evaluation.
Params2(k1, v1, k2, v2) == Dict(<<Entry(k1, Num(v1)), Entry(k2, Num(v2))>>)
PredLeaves ==
  {LeafRule("near_sma", Params({"period"}, 1)),
   LeafRule("near_sma", Params2("period", 1, "tolerance_pct", 50)),
   LeafRule("near_sma", Params2("period", 1, "tolerance_pct", 0)),
   LeafRule("near_sma", Params({"period"}, 2)),
   LeafRule("rising_sma", Params({"period"}, 1)),
   LeafRule("rising_sma", Params2("period", 1, "lookback", 0)),
   LeafRule("rising_sma", Params2("period", 1, "lookback", 1)),
   LeafRule("rising_sma", Params2("period", 1, "lookback", 2)),
   LeafRule("rising_sma", Params2("period", 1, "lookback", 0 - 2)),
   LeafRule("crossing_sma", Params({"period"}, 1)),
   LeafRule("rsi_above", Params2("period", 1, "level", 1)),
   LeafRule("rsi_below", Params2("period", 1, "level", 1))}
PairLeaves ==
  {LeafRule("near_sma", Params({"period"}, 1)),
   LeafRule("crossing_sma", Params({"period"}, 1)),
   LeafRule("rsi_above", Params2("period", 1, "level", 1))}
PredRules ==
  PredLeaves
  \cup {Node(op, <<>>) : op \in {"AND", "OR"}}
  \cup {Node(op, <<a, b>>) : op \in {"AND", "OR"}, a \in PairLeaves, b \in PairLeaves}
  \cup {Node(op, <<Node("OR", <<a, b>>), a>>) : op \in {"AND", "OR"},
                                                a \in PairLeaves, b \in PairLeaves}
  \cup {Node(op, <<b, Node("AND", <<a, b>>)>>) : op \in {"AND", "OR"},
                                                 a \in PairLeaves, b \in PairLeaves}

\* Bar tables of at most MaxRows rows, with no indicator column or with one.
CloseVals == {NaN, Val(1), Val(2)}
ColVals == {NaN, Val(0), Val(1), Val(2)}
Closes == UNION {[1..n -> CloseVals] : n \in 0..MaxRows}
Tables ==
  {Table(close, {}, <<>>) : close \in Closes}
  \cup UNION {{Table(close, {col}, [c \in {col} |-> vals]) :
                 vals \in [1..Len(close) -> ColVals], col \in {sma_col(1), rsi_col(1)}} :
              close \in Closes}

\* Symbols, timeframes and indicator configs of the cache calls and scans.
Symbols == {"A", "B"}
CfgNone == Dict(<<>>)
CfgSma == Dict(<<Entry("sma", List(<<Num(1)>>))>>)
\* The (symbol, timeframe, config) triples the cache API is called with.
CacheArgs == {<<"A", "1D", CfgNone>>, <<"B", "1D", CfgNone>>, <<"A", "1D", CfgSma>>}
\* The tables stored for a symbol.
CacheTables(symbol) == {ScanTable(symbol, 1, {}), ScanTable(symbol, 2, {sma_col(1)})}
\* The seconds the clock is seen to advance by between two calls.
TickSteps == {900, 901}

\* run_scan's arguments.
SymbolLists == UNION {[1..n -> Symbols] : n \in 0..MaxSymbols}
Timeframes == {"1D", "1H"}
ScanConfigs == {CfgSma}
NotCallable == [callable |-> FALSE, out |-> [s \in Symbols |-> "False"]]
RuleFns ==
  {Callable([s \in Symbols |-> "True"]),
   Callable([s \in Symbols |-> IF s = "A" THEN "KeyError" ELSE "False"]),
   NotCallable}
Faults == {"none", "cache", "load", "resample", "enrich", "rule"}

\* ---------------------------------------------------------- specifications
RuleIdle ==
  /\ rule = NoJson /\ vres = "none" /\ bres = NotBuilt
  /\ df = EmptyTable /\ pres = "none"
BarsIdle == bars_config = Dict(<<>>) /\ bars = 0 - 1
NoOp == [kind |-> "none", key |-> <<>>]
CacheIdle ==
  /\ _CACHE = EmptyDict /\ _CACHE_TS = EmptyDict /\ now = 0
  /\ call = NoOp /\ ret = None /\ stored = EmptyDict
ApiIdle == call = NoOp /\ ret = None /\ stored = EmptyDict
ScanIdle ==
  /\ symbols = <<>> /\ timeframe = "1D" /\ indicator_config = CfgNone
  /\ rule_fn = NotCallable /\ min_bars = 0
  /\ pos = 1 /\ results = <<>> /\ spc = "idle" /\ scan_exc = "none" /\ log = <<>>
StoreIdle == prices = [s \in Symbols |-> 0]
Requests == 1..MaxRequests
UpdateIdle ==
  /\ update_state = [running |-> FALSE, message |-> "Idle"]
  /\ last_price_update = 0
  /\ upc = [r \in Requests |-> "idle"]
  /\ reply = [r \in Requests |-> "none"]
  /\ task = [r \in Requests |-> "none"]

TfIdle == daily = <<>> /\ weekly = NotResampled
KeyIdle == cfg_a = Dict(<<>>) /\ cfg_b = Dict(<<>>) /\ key_a = NoKey /\ key_b = NoKey
ObjIdle ==
  /\ heap = <<>> /\ ipc = "idle" /\ isym = "" /\ ihit = FALSE
  /\ cached_ref = 0 /\ df_ref = 0 /\ called = <<>> /\ pending = <<>>
  /\ ind = NoCall /\ iend = "none"
EntryIdle == payload = NoPayload /\ members = <<>> /\ response = NoResponse
Threads == 1..MaxThreads
NoArg == [key |-> <<>>, table |-> ScanTable("", 0, {})]
NoRet == [st |-> "none", df |-> ScanTable("", 0, {})]
RaceIdle ==
  /\ tpc = [th \in Threads |-> "idle"] /\ targ = [th \in Threads |-> NoArg]
  /\ tts = [th \in Threads |-> 0] /\ tret = [th \in Threads |-> NoRet]
  /\ written = {} /\ wrote = <<>>
IndIdle ==
  /\ ind_config = Dict(<<>>) /\ ind_df = ScanTable("", 0, {}) /\ ind_done = FALSE

\* validate_rule(rule)
Validate ==
  /\ rule.t # "none" /\ vres = "none"
  /\ vres' = validate_rule(rule)
  /\ UNCHANGED <<varsInd, varsRace, varsEntry, varsObj, varsKey, varsTf, varsUpdate, rule, bres, df, pres, varsBars, varsCache, varsApi, prices, varsScan>>
\* build_rule(rule)
Build ==
  /\ rule.t # "none" /\ bres.st = "none"
  /\ bres' = build_rule(rule)
  /\ UNCHANGED <<varsInd, varsRace, varsEntry, varsObj, varsKey, varsTf, varsUpdate, rule, vres, df, pres, varsBars, varsCache, varsApi, prices, varsScan>>

InitRules ==
  /\ rule \in RuleInputs
  /\ vres = "none" /\ bres = NotBuilt /\ df = EmptyTable /\ pres = "none"
  /\ BarsIdle /\ CacheIdle /\ StoreIdle /\ ScanIdle /\ UpdateIdle /\ TfIdle /\ KeyIdle /\ ObjIdle /\ EntryIdle /\ RaceIdle /\ IndIdle
NextRules == Validate \/ Build
SpecRules == InitRules /\ [][NextRules]_vars

\* required_bars(bars_config)
ComputeBars ==
  /\ bars < 0
  /\ bars' = required_bars(bars_config)
  /\ UNCHANGED <<varsInd, varsRace, varsEntry, varsObj, varsKey, varsTf, varsUpdate, bars_config, varsRule, varsCache, varsApi, prices, varsScan>>
\* scan_stocks computes the min_bars it passes to run_scan from the payload's
\* indicators
ComputeMinBars ==
  /\ min_bars = 0
  /\ min_bars' = scan_min_bars(bars_config)
  /\ UNCHANGED <<varsInd, varsRace, varsEntry, varsObj, varsKey, varsTf, varsUpdate, varsBars, varsRule, varsCache, varsApi, prices,
                 symbols, timeframe, indicator_config, rule_fn,
                 pos, results, spc, scan_exc, log>>
InitBars ==
  /\ RuleIdle /\ CacheIdle /\ StoreIdle /\ ScanIdle /\ UpdateIdle /\ TfIdle /\ KeyIdle /\ ObjIdle /\ EntryIdle /\ RaceIdle /\ IndIdle
  /\ bars_config \in BarsConfigs \cup FloorConfigs /\ bars = 0 - 1
NextBars == ComputeBars \/ ComputeMinBars
SpecBars == InitBars /\ [][NextBars]_vars

\* rule_fn(df) for the predicate build_rule returned
Apply ==
  /\ bres.st = "ok" /\ pres = "none"
  /\ pres' = Call(bres.fn, df)
  /\ UNCHANGED <<varsInd, varsRace, varsEntry, varsObj, varsKey, varsTf, varsUpdate, rule, vres, bres, df, varsBars, varsCache, varsApi, prices, varsScan>>
InitPred ==
  /\ rule \in PredRules /\ df \in Tables
  /\ vres = "none" /\ bres = NotBuilt /\ pres = "none"
  /\ BarsIdle /\ CacheIdle /\ StoreIdle /\ ScanIdle /\ UpdateIdle /\ TfIdle /\ KeyIdle /\ ObjIdle /\ EntryIdle /\ RaceIdle /\ IndIdle
NextPred == Build \/ Apply
SpecPred == InitPred /\ [][NextPred]_vars

\* The cache API called on its own, each call at the time `now`.
\* set_cache(symbol, tf, config, table)
SetCache ==
  \E a \in CacheArgs : \E table \in CacheTables(a[1]) :
    LET after == set_cache(_CACHE, _CACHE_TS, now, a[1], a[2], a[3], table)
        key == make_cache_key(a[1], a[2], a[3])
    IN /\ _CACHE' = after.cache /\ _CACHE_TS' = after.cache_ts
       /\ call' = [kind |-> "set", key |-> key]
       /\ stored' = Put(stored, key, [df |-> table, at |-> now])
       /\ UNCHANGED <<varsInd, varsRace, varsEntry, varsObj, varsKey, varsTf, varsUpdate, now, ret, varsRule, varsBars, prices, varsScan>>
\* get_cached(symbol, tf, config)
GetCached ==
  \E a \in CacheArgs :
    LET got == get_cached(_CACHE, _CACHE_TS, now, a[1], a[2], a[3])
    IN /\ _CACHE' = got.cache /\ _CACHE_TS' = got.cache_ts
       /\ ret' = got.ret
       /\ call' = [kind |-> "get", key |-> make_cache_key(a[1], a[2], a[3])]
       /\ UNCHANGED <<varsInd, varsRace, varsEntry, varsObj, varsKey, varsTf, varsUpdate, now, stored, varsRule, varsBars, prices, varsScan>>
\* clear_cache()
ClearCache ==
  /\ _CACHE' = EmptyDict /\ _CACHE_TS' = EmptyDict
  /\ call' = [kind |-> "clear", key |-> <<>>]
  /\ stored' = EmptyDict
  /\ UNCHANGED <<varsInd, varsRace, varsEntry, varsObj, varsKey, varsTf, varsUpdate, now, ret, varsRule, varsBars, prices, varsScan>>
\* time passes between two calls
Tick ==
  \E d \in TickSteps :
    /\ now + d <= MaxTicks * 901
    /\ now' = now + d
    /\ call' = [kind |-> "tick", key |-> <<>>]
    /\ UNCHANGED <<varsInd, varsRace, varsEntry, varsObj, varsKey, varsTf, varsUpdate, _CACHE, _CACHE_TS, ret, stored, varsRule, varsBars, prices, varsScan>>
InitCache == RuleIdle /\ BarsIdle /\ CacheIdle /\ StoreIdle /\ ScanIdle /\ UpdateIdle /\ TfIdle /\ KeyIdle /\ ObjIdle /\ EntryIdle /\ RaceIdle /\ IndIdle
NextCache == SetCache \/ GetCached \/ ClearCache \/ Tick
SpecCache == InitCache /\ [][NextCache]_vars

\* run_scan(symbols, timeframe, indicator_config, rule_fn, min_bars) is
\* called: a rule_fn that is not callable raises TypeError before the loop.
StartScan ==
  /\ spc = "idle"
  /\ \E syms \in SymbolLists, tf \in Timeframes, config \in ScanConfigs,
        fn \in RuleFns, mb \in 1..MaxBars :
       /\ symbols' = syms /\ timeframe' = tf /\ indicator_config' = config
       /\ rule_fn' = fn /\ min_bars' = mb
       /\ spc' = IF fn.callable THEN "loop" ELSE "raised"
       /\ scan_exc' = IF fn.callable THEN "none" ELSE "TypeError"
  /\ pos' = 1 /\ results' = <<>> /\ log' = <<>>
  /\ UNCHANGED <<varsInd, varsRace, varsEntry, varsObj, varsKey, varsTf, varsUpdate, varsRule, varsBars, varsCache, varsApi, prices>>
\* one iteration of `for symbol in symbols`
ScanStep ==
  /\ spc = "loop" /\ pos <= Len(symbols)
  /\ \E fault \in Faults :
       LET symbol == symbols[pos]
           end == scan_iteration(_CACHE, _CACHE_TS, now, prices, symbol, timeframe,
                                 indicator_config, rule_fn, min_bars, fault)
       IN /\ _CACHE' = end.cache /\ _CACHE_TS' = end.cache_ts
          /\ log' = Append(log, end.outcome)
          /\ results' = IF end.outcome = "match" THEN ListAppend(results, symbol)
                        ELSE results
          /\ IF end.outcome = "error" /\ ~Caught(end.exc)
             THEN spc' = "raised" /\ scan_exc' = end.exc /\ pos' = pos
             ELSE spc' = spc /\ scan_exc' = scan_exc /\ pos' = pos + 1
  /\ UNCHANGED <<varsInd, varsRace, varsEntry, varsObj, varsKey, varsTf, varsUpdate, varsRule, varsBars, now, varsApi, prices, varsArgs>>
\* `return results` after the last symbol
ScanReturn ==
  /\ spc = "loop" /\ pos > Len(symbols)
  /\ spc' = "done"
  /\ UNCHANGED <<varsInd, varsRace, varsEntry, varsObj, varsKey, varsTf, varsUpdate, varsRule, varsBars, varsCache, varsApi, prices, varsArgs,
                 pos, results, scan_exc, log>>
\* the caller has the result (or the exception) and the call's locals are
\* gone; the next call may start
ScanOver ==
  /\ spc \in {"done", "raised"}
  /\ symbols' = <<>> /\ timeframe' = "1D" /\ indicator_config' = CfgNone
  /\ rule_fn' = NotCallable /\ min_bars' = 0
  /\ pos' = 1 /\ results' = <<>> /\ spc' = "idle" /\ scan_exc' = "none" /\ log' = <<>>
  /\ UNCHANGED <<varsInd, varsRace, varsEntry, varsObj, varsKey, varsTf, varsUpdate, varsRule, varsBars, varsCache, varsApi, prices>>
\* run_fetch_all inserts a symbol's next daily bar (INSERT OR IGNORE)
FetchInsert ==
  \E s \in Symbols :
    /\ prices[s] < MaxBars
    /\ prices' = [prices EXCEPT ![s] = @ + 1]
    /\ UNCHANGED <<varsInd, varsRace, varsEntry, varsObj, varsKey, varsTf, varsUpdate, varsRule, varsBars, varsCache, varsApi, varsScan>>
\* the entries' time to live passes while no scan runs
ScanTick ==
  /\ spc = "idle"
  /\ now + DEFAULT_TTL + 1 <= MaxExpiries * (DEFAULT_TTL + 1)
  /\ now' = now + DEFAULT_TTL + 1
  /\ UNCHANGED <<varsInd, varsRace, varsEntry, varsObj, varsKey, varsTf, varsUpdate, varsRule, varsBars, _CACHE, _CACHE_TS, varsApi, prices, varsScan>>
InitScan == RuleIdle /\ BarsIdle /\ CacheIdle /\ StoreIdle /\ ScanIdle /\ UpdateIdle /\ TfIdle /\ KeyIdle /\ ObjIdle /\ EntryIdle /\ RaceIdle /\ IndIdle
NextScan == StartScan \/ ScanStep \/ ScanReturn \/ ScanOver \/ FetchInsert \/ ScanTick
SpecScan == InitScan /\ [][NextScan]_vars

\* The days bars are stored for: the Friday of 2024's week 1, the Monday,
\* Wednesday and Friday of 2024's week 52, the Monday and Tuesday of 2025's
\* week 1 and the Monday of 2025's week 2.
TradingDates == <<5, 358, 360, 362, 365, 366, 372>>
BarShapes ==
  {<<2, 4, 1, 3, 10>>, <<3, 5, 2, 2, 0>>, <<1, 3, 1, 1, 7>>}
\* a symbol's stored bars, in date order: at most MaxDays of the dates
DailyTables ==
  LET Picks == {S \in SUBSET (1..Len(TradingDates)) : Cardinality(S) <= MaxDays}
      Dates(S) == LET In(i) == i \in S
                  IN SelectSeq([i \in 1..Len(TradingDates) |-> i], In)
  IN UNION {{[i \in 1..Cardinality(S) |->
                Bar(TradingDates[Dates(S)[i]], shape[i][1], shape[i][2], shape[i][3],
                    shape[i][4], shape[i][5])] :
               shape \in [1..Cardinality(S) -> BarShapes]} : S \in Picks}
\* get_tf_candles(df, "1W")
GetWeeklyCandles ==
  /\ ~weekly.done
  /\ weekly' = [done |-> TRUE,
                out |-> IF Len(daily) = 0 THEN daily ELSE weekly_candles(daily)]
  /\ UNCHANGED <<varsInd, varsRace, varsEntry, varsObj, varsKey, daily, varsRule, varsBars, varsCache, varsApi, prices, varsScan,
                 varsUpdate>>
InitTf ==
  /\ RuleIdle /\ BarsIdle /\ CacheIdle /\ StoreIdle /\ ScanIdle /\ UpdateIdle
  /\ daily \in DailyTables /\ weekly = NotResampled /\ KeyIdle /\ ObjIdle /\ EntryIdle /\ RaceIdle /\ IndIdle
NextTf == GetWeeklyCandles
SpecTf == InitTf /\ [][NextTf]_vars

\* Indicator configs as the payload's JSON gives them: up to MaxKinds of the
\* kinds, in any insertion order.
KindValues(kind) ==
  CASE kind = "sma" -> {List(<<Num(1)>>), List(<<Num(1), Num(2)>>), List(<<Num(2), Num(1)>>)}
    [] kind = "ema" -> {List(<<Num(1)>>)}
    [] kind = "rsi" -> {List(<<Num(2)>>)}
    [] kind = "macd" -> {List(<<List(<<Num(1), Num(2), Num(1)>>)>>)}
Kinds == {"sma", "ema", "rsi", "macd"}
KindOrders ==
  UNION {{order \in [1..n -> Kinds] : \A i \in 1..n : \A j \in 1..n :
                                        i # j => order[i] # order[j]} :
           n \in 0..MaxKinds}
ValueChoices ==
  {value \in [Kinds -> UNION {KindValues(kind) : kind \in Kinds}] :
     \A kind \in Kinds : value[kind] \in KindValues(kind)}
KeyConfigs ==
  UNION {{Dict(IF Len(order) = 0 THEN <<>>
               ELSE [i \in 1..Len(order) |-> Entry(order[i], value[order[i]])]) :
            value \in ValueChoices} : order \in KindOrders}
\* make_cache_key(symbol, tf, config) for each of the two configs
MakeKeys ==
  /\ key_a = NoKey
  /\ \E symbol \in Symbols, tf \in {"1D", "1W"} :
       /\ key_a' = make_cache_key(symbol, tf, cfg_a)
       /\ key_b' = make_cache_key(symbol, tf, cfg_b)
  /\ UNCHANGED <<varsInd, varsRace, varsEntry, varsObj, cfg_a, cfg_b, varsRule, varsBars, varsCache, varsApi, prices, varsScan,
                 varsUpdate, varsTf>>
InitKey ==
  /\ RuleIdle /\ BarsIdle /\ CacheIdle /\ StoreIdle /\ ScanIdle /\ UpdateIdle /\ TfIdle
  /\ cfg_a \in KeyConfigs /\ cfg_b \in KeyConfigs /\ key_a = NoKey /\ key_b = NoKey
  /\ ObjIdle /\ EntryIdle /\ RaceIdle /\ IndIdle
NextKey == MakeKeys
SpecKey == InitKey /\ [][NextKey]_vars

\* One iteration of `for symbol in symbols` at a time, a statement a step,
\* with the tables as objects. The predicate called at the end returns or
\* raises as rule_fn does for the symbol, and may write to the table it is
\* given.
varsRest == <<varsRule, varsBars, varsApi, varsScan, varsUpdate, varsTf, varsKey>>
ObjTimeframes == {"1D", "1W", "1H"}
ObjConfigs == {CfgSma, Config(<<Num(1)>>, <<Num(2)>>, <<>>, <<>>)}
\* for symbol in symbols: try:
IterStart ==
  /\ ipc = "idle"
  /\ \E symbol \in Symbols : isym' = symbol
  /\ ipc' = "lookup"
  /\ UNCHANGED <<varsInd, varsRace, varsEntry, varsRest, varsCache, prices, heap, ihit, cached_ref, df_ref, called,
                 pending, ind, iend>>
\* cached = get_cached(symbol, timeframe, indicator_config)
IterLookup ==
  /\ ipc = "lookup"
  /\ LET got == get_cached(_CACHE, _CACHE_TS, now, isym, timeframe, indicator_config)
     IN /\ _CACHE' = got.cache /\ _CACHE_TS' = got.cache_ts
        /\ ihit' = got.ret.hit
        /\ cached_ref' = IF got.ret.hit THEN got.ret.df ELSE 0
        /\ ipc' = after_lookup(got.ret.hit)
  /\ called' = Append(called, "get_cached")
  /\ UNCHANGED <<varsInd, varsRace, varsEntry, varsRest, now, prices, heap, isym, df_ref, pending, ind, iend>>
\* df = cached.copy()
IterCopy ==
  /\ ipc = "copy"
  /\ heap' = Copy(heap, cached_ref).heap /\ df_ref' = Copy(heap, cached_ref).ref
  /\ ipc' = "rule"
  /\ UNCHANGED <<varsInd, varsRace, varsEntry, varsRest, varsCache, prices, isym, ihit, cached_ref, called, pending,
                 ind, iend>>
\* df = load_prices(symbol); if df.empty: continue
IterLoad ==
  /\ ipc = "load"
  /\ LET loaded == New(heap, load_prices(prices, isym))
     IN /\ heap' = loaded.heap /\ df_ref' = loaded.ref
        /\ IF IsEmpty(loaded.heap[loaded.ref])
           THEN ipc' = "end" /\ iend' = "skip_empty"
           ELSE ipc' = "resample" /\ iend' = iend
  /\ called' = Append(called, "load_prices")
  /\ UNCHANGED <<varsInd, varsRace, varsEntry, varsRest, varsCache, prices, isym, ihit, cached_ref, pending, ind>>
\* df = get_tf_candles(df, timeframe); if len(df) < min_bars: continue
IterResample ==
  /\ ipc = "resample"
  /\ LET out == tf_candles_object(heap, df_ref, timeframe)
     IN /\ heap' = out.heap /\ df_ref' = out.ref
        /\ IF out.exc # "none" THEN ipc' = "end" /\ iend' = "error"
           ELSE IF out.heap[out.ref].rows < min_bars
           THEN ipc' = "end" /\ iend' = "skip_short"
           ELSE ipc' = "apply" /\ iend' = iend
  /\ called' = Append(called, "get_tf_candles")
  /\ UNCHANGED <<varsInd, varsRace, varsEntry, varsRest, varsCache, prices, isym, ihit, cached_ref, pending, ind>>
\* apply_indicators(df, indicator_config) is entered: an empty table is
\* returned as it is, else df = df.copy() and the loops start
IterApply ==
  /\ ipc = "apply"
  /\ IF IsEmpty(heap[df_ref])
     THEN heap' = heap /\ df_ref' = df_ref /\ pending' = <<>>
     ELSE /\ heap' = Copy(heap, df_ref).heap /\ df_ref' = Copy(heap, df_ref).ref
          /\ pending' = IndicatorCalls(indicator_config)
  /\ ipc' = "add"
  /\ called' = Append(called, "apply_indicators")
  /\ UNCHANGED <<varsInd, varsRace, varsEntry, varsRest, varsCache, prices, isym, ihit, cached_ref, ind, iend>>
\* df = add_sma(df, period), and so for ema, rsi and macd
IterAdd ==
  /\ ipc = "add" /\ Len(pending) > 0
  /\ LET out == add_indicator(heap, df_ref, Head(pending))
     IN /\ heap' = out.heap /\ df_ref' = out.ref
        /\ ind' = [given |-> df_ref, returned |-> out.ref, before |-> heap[df_ref]]
  /\ pending' = Tail(pending)
  /\ UNCHANGED <<varsInd, varsRace, varsEntry, varsRest, varsCache, prices, ipc, isym, ihit, cached_ref, called, iend>>
\* apply_indicators returns df; if len(df) < min_bars: continue
IterApplied ==
  /\ ipc = "add" /\ Len(pending) = 0
  /\ IF heap[df_ref].rows < min_bars
     THEN ipc' = "end" /\ iend' = "skip_short"
     ELSE ipc' = "store" /\ iend' = iend
  /\ UNCHANGED <<varsInd, varsRace, varsEntry, varsRest, varsCache, prices, heap, isym, ihit, cached_ref, df_ref,
                 called, pending, ind>>
\* set_cache(symbol, timeframe, indicator_config, df)
IterStore ==
  /\ ipc = "store"
  /\ LET put == set_cache(_CACHE, _CACHE_TS, now, isym, timeframe, indicator_config,
                          df_ref)
     IN _CACHE' = put.cache /\ _CACHE_TS' = put.cache_ts
  /\ ipc' = "rule"
  /\ called' = Append(called, "set_cache")
  /\ UNCHANGED <<varsInd, varsRace, varsEntry, varsRest, now, prices, heap, isym, ihit, cached_ref, df_ref, pending,
                 ind, iend>>
\* if rule_fn(df): results.append(symbol); except Exception
IterRule ==
  /\ ipc = "rule"
  /\ \E writes \in BOOLEAN :
       heap' = IF writes THEN [heap EXCEPT ![df_ref].cols = @ \cup {<<"scratch">>}]
               ELSE heap
  /\ iend' = CASE rule_fn.out[isym] = "True" -> "match"
                [] rule_fn.out[isym] = "False" -> "nomatch"
                [] OTHER -> "error"
  /\ ipc' = "end"
  /\ called' = Append(called, "rule_fn")
  /\ UNCHANGED <<varsInd, varsRace, varsEntry, varsRest, varsCache, prices, isym, ihit, cached_ref, df_ref, pending, ind>>
\* the iteration is over: its locals are rebound by the next one and the
\* objects they alone referred to are freed
IterEnd ==
  /\ ipc = "end"
  /\ heap' = Collected(heap, _CACHE)
  /\ _CACHE' = [k \in DOMAIN _CACHE |-> Rank(_CACHE, _CACHE[k])]
  /\ ipc' = "idle" /\ isym' = "" /\ ihit' = FALSE /\ cached_ref' = 0 /\ df_ref' = 0
  /\ called' = <<>> /\ pending' = <<>> /\ ind' = NoCall /\ iend' = "none"
  /\ UNCHANGED <<varsInd, varsRace, varsEntry, varsRest, _CACHE_TS, now, prices>>
InitObj ==
  /\ RuleIdle /\ BarsIdle /\ CacheIdle /\ StoreIdle /\ UpdateIdle /\ TfIdle /\ KeyIdle
  /\ ObjIdle /\ EntryIdle /\ RaceIdle /\ IndIdle
  /\ symbols = <<>> /\ timeframe \in ObjTimeframes /\ indicator_config \in ObjConfigs
  /\ rule_fn \in {f \in RuleFns : f.callable} /\ min_bars \in 1..MaxBars
  /\ pos = 1 /\ results = <<>> /\ spc = "idle" /\ scan_exc = "none" /\ log = <<>>
NextObj ==
  \/ IterStart \/ IterLookup \/ IterCopy \/ IterLoad \/ IterResample \/ IterApply
  \/ IterAdd \/ IterApplied \/ IterStore \/ IterRule \/ IterEnd
  \/ FetchInsert \/ ScanTick
SpecObj == InitObj /\ [][NextObj]_vars

\* One POST /scan request against a store that run_fetch_all fills.
EntryRules == WellKeyedLeaves \cup OddConfigLeaves \cup Trees(1) \cup Malformed \cup {NoJson}
Payloads ==
  {Payload(universe, rule_json, "1D", CfgSma) :
     universe \in {"", "all", "other"}, rule_json \in EntryRules}
\* scan_stocks(payload)
ScanStocks ==
  /\ response.st = "none"
  /\ \E verdicts \in [Symbols -> {"True", "False"}] :
       LET out == scan_stocks(payload, _CACHE, _CACHE_TS, now, prices, members, verdicts)
       IN /\ response' = out
          /\ _CACHE' = out.cache /\ _CACHE_TS' = out.cache_ts
  /\ UNCHANGED <<varsInd, varsRace, varsObj, varsKey, varsTf, varsUpdate, varsRule, varsBars, now, varsApi,
                 prices, varsScan, payload, members>>
InitEntry ==
  /\ RuleIdle /\ BarsIdle /\ CacheIdle /\ StoreIdle /\ ScanIdle /\ UpdateIdle /\ TfIdle
  /\ KeyIdle /\ ObjIdle /\ RaceIdle /\ IndIdle
  /\ payload \in Payloads /\ members \in SymbolLists /\ response = NoResponse
NextEntry == ScanStocks \/ FetchInsert
SpecEntry == InitEntry /\ [][NextEntry]_vars

\* The cache API called by scans running on several worker threads
\* (scan_stocks is a plain def), one step per statement of cache.py; the
\* dict operations themselves are atomic.
varsOther ==
  <<varsEntry, varsObj, varsKey, varsTf, varsUpdate, varsRule, varsBars, varsApi, prices,
    varsScan>>
Returned(st, table) == [st |-> st, df |-> table]
\* get_cached(symbol, "1D", {}) is called: key = make_cache_key(...)
CallGet(th) ==
  /\ tpc[th] = "idle"
  /\ \E symbol \in Symbols :
       targ' = [targ EXCEPT ![th] = [key |-> make_cache_key(symbol, "1D", CfgNone),
                                     table |-> NoArg.table]]
  /\ tpc' = [tpc EXCEPT ![th] = "get50"]
  /\ tret' = [tret EXCEPT ![th] = NoRet]
  /\ UNCHANGED <<varsInd, varsOther, varsCache, tts, written, wrote>>
\* set_cache(symbol, "1D", {}, df) is called
CallSet(th) ==
  /\ tpc[th] = "idle"
  /\ \E symbol \in Symbols :
       LET key == make_cache_key(symbol, "1D", CfgNone)
           table == ScanTable(symbol, 1, {})
       IN /\ targ' = [targ EXCEPT ![th] = [key |-> key, table |-> table]]
          /\ written' = written \cup {<<key, table>>}
  /\ tpc' = [tpc EXCEPT ![th] = "set66"]
  /\ tret' = [tret EXCEPT ![th] = NoRet]
  /\ UNCHANGED <<varsInd, varsOther, varsCache, tts, wrote>>
\* clear_cache() is called
CallClear(th) ==
  /\ tpc[th] = "idle"
  /\ targ' = [targ EXCEPT ![th] = NoArg]
  /\ tpc' = [tpc EXCEPT ![th] = "clear73"]
  /\ tret' = [tret EXCEPT ![th] = NoRet]
  /\ UNCHANGED <<varsInd, varsOther, varsCache, tts, written, wrote>>
\* if key not in _CACHE: return None
Get50(th) ==
  /\ tpc[th] = "get50"
  /\ IF targ[th].key \notin DOMAIN _CACHE
     THEN /\ tpc' = [tpc EXCEPT ![th] = "idle"]
          /\ tret' = [tret EXCEPT ![th] = Returned("miss", NoArg.table)]
     ELSE /\ tpc' = [tpc EXCEPT ![th] = "get53"]
          /\ tret' = tret
  /\ UNCHANGED <<varsInd, varsOther, varsCache, targ, tts, written, wrote>>
\* ts = _CACHE_TS.get(key, 0)
Get53(th) ==
  /\ tpc[th] = "get53"
  /\ tts' = [tts EXCEPT ![th] = IF targ[th].key \in DOMAIN _CACHE_TS
                                THEN _CACHE_TS[targ[th].key] ELSE EPOCH]
  /\ tpc' = [tpc EXCEPT ![th] = "get54"]
  /\ UNCHANGED <<varsInd, varsOther, varsCache, targ, tret, written, wrote>>
\* if time.time() - ts > DEFAULT_TTL:
Get54(th) ==
  /\ tpc[th] = "get54"
  /\ tpc' = [tpc EXCEPT ![th] = IF now - tts[th] > DEFAULT_TTL THEN "get56" ELSE "get61"]
  /\ UNCHANGED <<varsInd, varsOther, varsCache, targ, tts, tret, written, wrote>>
\* _CACHE.pop(key, None)
Get56(th) ==
  /\ tpc[th] = "get56"
  /\ _CACHE' = Pop(_CACHE, targ[th].key)
  /\ wrote' = Pop(wrote, targ[th].key)
  /\ tpc' = [tpc EXCEPT ![th] = "get57"]
  /\ UNCHANGED <<varsInd, varsOther, _CACHE_TS, now, targ, tts, tret, written>>
\* _CACHE_TS.pop(key, None); return None
Get57(th) ==
  /\ tpc[th] = "get57"
  /\ _CACHE_TS' = Pop(_CACHE_TS, targ[th].key)
  /\ tpc' = [tpc EXCEPT ![th] = "idle"]
  /\ tret' = [tret EXCEPT ![th] = Returned("miss", NoArg.table)]
  /\ UNCHANGED <<varsInd, varsOther, _CACHE, now, targ, tts, written, wrote>>
\* return _CACHE[key]: KeyError when the key is gone
Get61(th) ==
  /\ tpc[th] = "get61"
  /\ tret' = [tret EXCEPT ![th] = IF targ[th].key \in DOMAIN _CACHE
                                  THEN Returned("hit", _CACHE[targ[th].key])
                                  ELSE Returned("KeyError", NoArg.table)]
  /\ tpc' = [tpc EXCEPT ![th] = "idle"]
  /\ UNCHANGED <<varsInd, varsOther, varsCache, targ, tts, written, wrote>>
\* _CACHE[key] = df
Set66(th) ==
  /\ tpc[th] = "set66"
  /\ _CACHE' = Put(_CACHE, targ[th].key, targ[th].table)
  /\ wrote' = Put(wrote, targ[th].key, now)
  /\ tpc' = [tpc EXCEPT ![th] = "set67"]
  /\ UNCHANGED <<varsInd, varsOther, _CACHE_TS, now, targ, tts, tret, written>>
\* _CACHE_TS[key] = time.time()
Set67(th) ==
  /\ tpc[th] = "set67"
  /\ _CACHE_TS' = Put(_CACHE_TS, targ[th].key, now)
  /\ tpc' = [tpc EXCEPT ![th] = "idle"]
  /\ tret' = [tret EXCEPT ![th] = Returned("set", NoArg.table)]
  /\ UNCHANGED <<varsInd, varsOther, _CACHE, now, targ, tts, written, wrote>>
\* _CACHE.clear()
Clear73(th) ==
  /\ tpc[th] = "clear73"
  /\ _CACHE' = EmptyDict /\ wrote' = EmptyDict
  /\ tpc' = [tpc EXCEPT ![th] = "clear74"]
  /\ UNCHANGED <<varsInd, varsOther, _CACHE_TS, now, targ, tts, tret, written>>
\* _CACHE_TS.clear()
Clear74(th) ==
  /\ tpc[th] = "clear74"
  /\ _CACHE_TS' = EmptyDict
  /\ tpc' = [tpc EXCEPT ![th] = "idle"]
  /\ tret' = [tret EXCEPT ![th] = Returned("cleared", NoArg.table)]
  /\ UNCHANGED <<varsInd, varsOther, _CACHE, now, targ, tts, written, wrote>>
InitRace ==
  /\ RuleIdle /\ BarsIdle /\ CacheIdle /\ StoreIdle /\ ScanIdle /\ UpdateIdle /\ TfIdle
  /\ KeyIdle /\ ObjIdle /\ EntryIdle /\ RaceIdle /\ IndIdle
NextRace ==
  \/ \E th \in Threads :
       \/ CallGet(th) \/ CallSet(th) \/ CallClear(th)
       \/ Get50(th) \/ Get53(th) \/ Get54(th) \/ Get56(th) \/ Get57(th) \/ Get61(th)
       \/ Set66(th) \/ Set67(th) \/ Clear73(th) \/ Clear74(th)
  \/ ScanTick
SpecRace == InitRace /\ [][NextRace]_vars



\* POST /update, each request handled on its own worker thread (update_data
\* is a plain def), one step per statement of the handler.
\* a POST /update arrives
Request(r) ==
  /\ upc[r] = "idle"
  /\ upc' = [upc EXCEPT ![r] = "check"]
  /\ UNCHANGED <<varsInd, varsRace, varsEntry, varsObj, varsKey, varsTf, varsRule, varsBars, varsCache, varsApi, prices, varsScan,
                 update_state, last_price_update, reply, task>>
\* if update_state["running"]: return {"status": "running"}
CheckRunning(r) ==
  /\ upc[r] = "check"
  /\ IF update_state.running
     THEN upc' = [upc EXCEPT ![r] = "done"] /\ reply' = [reply EXCEPT ![r] = "running"]
     ELSE upc' = [upc EXCEPT ![r] = "set_running"] /\ reply' = reply
  /\ UNCHANGED <<varsInd, varsRace, varsEntry, varsObj, varsKey, varsTf, varsRule, varsBars, varsCache, varsApi, prices, varsScan,
                 update_state, last_price_update, task>>
\* update_state["running"] = True
SetRunning(r) ==
  /\ upc[r] = "set_running"
  /\ update_state' = [update_state EXCEPT !.running = TRUE]
  /\ upc' = [upc EXCEPT ![r] = "set_message"]
  /\ UNCHANGED <<varsInd, varsRace, varsEntry, varsObj, varsKey, varsTf, varsRule, varsBars, varsCache, varsApi, prices, varsScan,
                 last_price_update, reply, task>>
\* update_state["message"] = "Updating"
SetMessage(r) ==
  /\ upc[r] = "set_message"
  /\ update_state' = [update_state EXCEPT !.message = "Updating"]
  /\ upc' = [upc EXCEPT ![r] = "add_task"]
  /\ UNCHANGED <<varsInd, varsRace, varsEntry, varsObj, varsKey, varsTf, varsRule, varsBars, varsCache, varsApi, prices, varsScan,
                 last_price_update, reply, task>>
\* background_tasks.add_task(run_update_task); return {"status": "started"}
AddTask(r) ==
  /\ upc[r] = "add_task"
  /\ task' = [task EXCEPT ![r] = "scheduled"]
  /\ reply' = [reply EXCEPT ![r] = "started"]
  /\ upc' = [upc EXCEPT ![r] = "done"]
  /\ UNCHANGED <<varsInd, varsRace, varsEntry, varsObj, varsKey, varsTf, varsRule, varsBars, varsCache, varsApi, prices, varsScan,
                 update_state, last_price_update>>
\* the response is sent and the request's background task starts
TaskStart(r) ==
  /\ task[r] = "scheduled"
  /\ task' = [task EXCEPT ![r] = "running"]
  /\ UNCHANGED <<varsInd, varsRace, varsEntry, varsObj, varsKey, varsTf, varsRule, varsBars, varsCache, varsApi, prices, varsScan,
                 update_state, last_price_update, upc, reply>>
\* run_fetch_all's max_updated_date: the latest day a symbol has a bar of
max_updated_date(store) ==
  CHOOSE m \in 0..MaxBars : /\ \E s \in Symbols : store[s] = m
                            /\ \A s \in Symbols : store[s] <= m
\* the try block of run_update_task: run_fetch_all() returns the latest date
\* it stored bars for, which set_meta records, or returns None, or raises
\* (caught and logged)
TaskFetch(r) ==
  /\ task[r] = "running"
  /\ \E out \in {"date", "None", "raised"} :
       LET fetched == [s \in Symbols |-> IF prices[s] < MaxBars THEN prices[s] + 1
                                         ELSE prices[s]]
       IN IF out = "date"
          THEN prices' = fetched /\ last_price_update' = max_updated_date(fetched)
          ELSE prices' = prices /\ last_price_update' = last_price_update
  /\ task' = [task EXCEPT ![r] = "finally"]
  /\ UNCHANGED <<varsInd, varsRace, varsEntry, varsObj, varsKey, varsTf, varsRule, varsBars, varsCache, varsApi, varsScan,
                 update_state, upc, reply>>
\* a finally block that leaves update_state["running"] as it is
ResetRunningSkipped(r) ==
  /\ task[r] = "finally"
  /\ task' = [task EXCEPT ![r] = "reset_message"]
  /\ UNCHANGED <<varsInd, varsRace, varsEntry, varsObj, varsKey, varsTf, varsRule, varsBars, varsCache, varsApi, prices, varsScan,
                 update_state, last_price_update, upc, reply>>
\* finally: update_state["running"] = False
ResetRunning(r) ==
  /\ task[r] = "finally"
  /\ update_state' = [update_state EXCEPT !.running = FALSE]
  /\ task' = [task EXCEPT ![r] = "reset_message"]
  /\ UNCHANGED <<varsInd, varsRace, varsEntry, varsObj, varsKey, varsTf, varsRule, varsBars, varsCache, varsApi, prices, varsScan,
                 last_price_update, upc, reply>>
\* finally: update_state["message"] = "Idle"
ResetMessage(r) ==
  /\ task[r] = "reset_message"
  /\ update_state' = [update_state EXCEPT !.message = "Idle"]
  /\ task' = [task EXCEPT ![r] = "done"]
  /\ UNCHANGED <<varsInd, varsRace, varsEntry, varsObj, varsKey, varsTf, varsRule, varsBars, varsCache, varsApi, prices, varsScan,
                 last_price_update, upc, reply>>
InitUpdate == RuleIdle /\ BarsIdle /\ CacheIdle /\ StoreIdle /\ ScanIdle /\ UpdateIdle /\ TfIdle /\ KeyIdle /\ ObjIdle /\ EntryIdle /\ RaceIdle /\ IndIdle
NextUpdate ==
  \E r \in Requests :
    \/ Request(r) \/ CheckRunning(r) \/ SetRunning(r) \/ SetMessage(r) \/ AddTask(r)
    \/ TaskStart(r) \/ TaskFetch(r) \/ ResetRunning(r) \/ ResetMessage(r)
SpecUpdate == InitUpdate /\ [][NextUpdate]_vars
\* Every handler that has started runs to its return, and every scheduled
\* task is started, its run_fetch_all call ends and its finally block runs; the
\* arrival of a request is not forced.
FairUpdate ==
  \A r \in Requests :
    /\ WF_vars(CheckRunning(r)) /\ WF_vars(SetRunning(r)) /\ WF_vars(SetMessage(r))
    /\ WF_vars(AddTask(r)) /\ WF_vars(TaskStart(r)) /\ WF_vars(TaskFetch(r))
    /\ WF_vars(ResetRunning(r)) /\ WF_vars(ResetMessage(r))
SpecUpdateFair == SpecUpdate /\ FairUpdate

\* ------------------------------------------------------------------ claims

\* C1: every rule tree validate_rule accepts is compiled by build_rule without
\* raising.
C1_AcceptedTreesCompile ==
  (vres = "ok" /\ bres.st # "none") => bres.st = "ok"

\* A leaf object {name: params}
IsLeaf(r) ==
  /\ r.t = "dict" /\ Len(r.v) = 1
  /\ r.v[1].k \notin {"AND", "OR"} /\ r.v[1].t = "dict"
\* A leaf with an unknown name, a missing required parameter or a parameter
\* outside required and optional
BadLeaf(r) ==
  LET name == r.v[1].k
      given == Keys(r.v[1])
  IN \/ name \notin DOMAIN RULE_DEFINITIONS
     \/ ~(Range(RULE_DEFINITIONS[name].required) \subseteq given)
     \/ ~(given \subseteq Range(RULE_DEFINITIONS[name].required)
                            \cup Range(RULE_DEFINITIONS[name].optional))
\* r contains such a leaf at some depth under AND/OR child lists
RECURSIVE HasBadLeaf(_)
HasBadLeaf(r) ==
  /\ r.t = "dict"
  /\ \/ IsLeaf(r) /\ BadLeaf(r)
     \/ \E i \in 1..Len(r.v) :
          /\ r.v[i].k \in {"AND", "OR"} /\ r.v[i].t = "list"
          /\ \E j \in 1..Len(r.v[i].v) : HasBadLeaf(r.v[i].v[j])

\* C2: validate_rule raises for every rule tree that contains, at any depth
\* under AND/OR child lists, a leaf with an unknown name, a missing required
\* parameter or a parameter outside required and optional.
C2_BadLeafRaises ==
  (vres # "none" /\ HasBadLeaf(rule)) => vres = "ValueError"

\* Every object of r has exactly one key.
RECURSIVE OneKeyEach(_)
OneKeyEach(r) ==
  r.t = "dict" =>
    /\ Len(r.v) = 1
    /\ r.v[1].k \in {"AND", "OR"} /\ r.v[1].t = "list" =>
         \A j \in 1..Len(r.v[1].v) : OneKeyEach(r.v[1].v[j])
\* C2 on the trees of the grammar (one key per object): there the validator
\* does raise; the failures of C2 are objects holding AND or OR beside
\* another key.
C2_BadLeafRaisesInOneKeyTrees ==
  (vres # "none" /\ HasBadLeaf(rule) /\ OneKeyEach(rule)) => vres = "ValueError"
C2_W_NestedBadLeaf ==
  /\ vres = "ValueError" /\ HasBadLeaf(rule) /\ OneKeyEach(rule)
  /\ ~IsLeaf(rule)

\* The rows a leaf reads, counted from the end of the table.
RowsNeeded(p) ==
  CASE p.op = "crossing_up" -> 2
    [] p.op = "rising_ma" -> p.arg + 1
    [] OTHER -> 1
IsLeafPred(p) == p.op \notin {"AND", "OR", "none"}
ColumnMissing(p, d) == p.col \notin d.cols
TooFewRows(p, d) == Len(d.close) < RowsNeeded(p)
\* One of the indicator values the leaf reads is NaN.
IndicatorNaN(p, d) ==
  /\ ~ColumnMissing(p, d) /\ ~TooFewRows(p, d)
  /\ \E i \in 1..Len(d.close) :
       i > Len(d.close) - RowsNeeded(p) /\ d.data[p.col][i].nan

C6_W_MissingColumn ==
  /\ pres = "False" /\ IsLeafPred(bres.fn)
  /\ ColumnMissing(bres.fn, df) /\ ~TooFewRows(bres.fn, df)

\* The periods a config names: every sma, ema and rsi period and every MACD
\* slow period.
ConfiguredPeriods(config) ==
  UNION {{ConfigList(config, kind)[i].n : i \in 1..Len(ConfigList(config, kind))} :
           kind \in {"sma", "ema", "rsi"}}
  \cup {ConfigList(config, "macd")[i].v[2].n : i \in 1..Len(ConfigList(config, "macd"))}
SetMax(S) == IF S = {} THEN 0 ELSE CHOOSE m \in S : \A x \in S : x <= m

C8_GetWithinTtlReturnsStored ==
  (/\ call.kind = "get" /\ call.key \in DOMAIN stored
   /\ now - stored[call.key].at <= DEFAULT_TTL)
  => (ret.hit /\ ret.df = stored[call.key].df)
\* a hit on an entry whose age is exactly the TTL, another key set since
C8_W_HitAtTtl ==
  /\ call.kind = "get" /\ call.key \in DOMAIN stored
  /\ now - stored[call.key].at = DEFAULT_TTL
  /\ ret.hit /\ ret.df = stored[call.key].df
  /\ \E other \in DOMAIN stored : other # call.key /\ stored[other].df # ret.df

\* C9: a get_cached made when more than the TTL has passed since the entry's
\* last set_cache returns a miss and removes the entry, table and timestamp.
C9_GetPastTtlEvicts ==
  (/\ call.kind = "get" /\ call.key \in DOMAIN stored
   /\ now - stored[call.key].at > DEFAULT_TTL)
  => (/\ ~ret.hit
      /\ call.key \notin DOMAIN _CACHE
      /\ call.key \notin DOMAIN _CACHE_TS)
\* an expired entry evicted by the read while another entry stays
C9_W_Evicted ==
  /\ call.kind = "get" /\ call.key \in DOMAIN stored
  /\ now - stored[call.key].at = DEFAULT_TTL + 1
  /\ ~ret.hit /\ call.key \notin DOMAIN _CACHE
  /\ _CACHE # EmptyDict

\* The symbols of the first n iterations that ended in a match, in order.
RECURSIVE Matched(_)
Matched(n) ==
  IF n = 0 THEN <<>>
  ELSE IF log[n] = "match" THEN Append(Matched(n - 1), symbols[n])
  ELSE Matched(n - 1)

\* C3: an exception raised for one symbol, at the cache lookup, the load, the
\* resampling, the enrichment or the predicate, never leaves run_scan: the
\* only exception run_scan raises is the TypeError for a rule_fn that is not
\* callable, the result holds the symbols of the matching iterations alone,
\* and a scan that returns has processed every symbol of its input.
C3_SymbolErrorsStayInside ==
  /\ (spc = "raised" \/ scan_exc # "none") => (~rule_fn.callable /\ log = <<>>)
  /\ spc \in {"loop", "done"} =>
       /\ Len(log) = pos - 1 /\ pos - 1 <= Len(symbols)
       /\ results = Matched(Len(log))
  /\ spc = "done" => Len(log) = Len(symbols)
\* a scan that returned after its first symbol raised and its second matched
C3_W_ErrorThenMatch ==
  /\ spc = "done" /\ Len(symbols) = 2
  /\ log = <<"error", "match">>
  /\ results = <<symbols[2]>>

\* a is b with some of its elements left out
RECURSIVE IsSubseq(_, _)
IsSubseq(a, b) ==
  IF Len(a) = 0 THEN TRUE
  ELSE IF Len(b) = 0 THEN FALSE
  ELSE IF Head(a) = Head(b) THEN IsSubseq(Tail(a), Tail(b))
  ELSE IsSubseq(a, Tail(b))

\* C4: the list run_scan builds and returns is a subsequence of its input
\* list: the symbols are in input order, none occurs more often than in the
\* input, none is from outside it.
C4_ResultIsSubsequence ==
  spc \in {"loop", "done"} => IsSubseq(results, SubSeq(symbols, 1, pos - 1))
\* a scan of B then A in which both matched
C4_W_BothMatchInOrder ==
  /\ spc = "done" /\ symbols = <<"B", "A">> /\ results = <<"B", "A">>

\* C5: whatever the cache holds and whatever the predicate, the iteration of
\* a symbol whose price history is empty adds nothing to the result and
\* raises nothing out of run_scan.
C5_EmptyHistoryAddsNothing ==
  [][(/\ spc = "loop" /\ pos <= Len(symbols)
      /\ prices[symbols[pos]] = 0)
     => (/\ results' = results
         /\ spc' = "loop" /\ scan_exc' = "none"
         /\ log' # log => log'[pos] \in {"skip_empty", "error"})]_vars
\* a scan over A, cached and matching, then B, of empty history, under a
\* predicate that is true of every table
C5_W_EmptySkippedAfterHit ==
  /\ spc = "done" /\ symbols = <<"A", "B">> /\ prices["B"] = 0
  /\ rule_fn.out["B"] = "True"
  /\ log = <<"match", "skip_empty">> /\ results = <<"A">>
  /\ _CACHE # EmptyDict

\* The refresh tasks scheduled or running and not yet at their finally block.
InFlight == {r \in Requests : task[r] \in {"scheduled", "running"}}

\* C7: under any interleaving of concurrent POST /update requests at most one
\* refresh task is in flight: a request that arrives while one is in flight
\* is answered "running" and schedules none.
C7_AtMostOneRefreshInFlight == Cardinality(InFlight) <= 1

\* C11: the min_bars scan_stocks passes to run_scan is
\* max(largest configured sma, ema or rsi period, largest MACD slow period,
\* 50) + 5.
C11_MinBarsIsFlooredMaxPlusFive ==
  min_bars > 0 =>
    min_bars = PyMax(SetMax(ConfiguredPeriods(bars_config)), MIN_BARS_FLOOR) + 5

\* The timeframe tokens get_tf_candles knows.
KnownTimeframes == {"1D", "1W", "1M"}

\* C12: get_tf_candles with a token other than "1D", "1W" and "1M" raises
\* for every bar table, the empty one included, and a run_scan called with
\* such a token raises instead of returning a list.
C12_UnknownTimeframeFails ==
  /\ \A tf \in Timeframes \ KnownTimeframes : \A n \in 0..MaxBars :
       get_tf_candles(load_prices([s \in Symbols |-> n], "A"), tf).exc # "none"
  /\ (spc = "done" /\ rule_fn.callable) => timeframe \in KnownTimeframes

\* The rows of the daily table in the ISO week `key`.
WeekRows(key) == {i \in 1..Len(daily) : isocalendar(daily[i].date) = key}
RECURSIVE SumOver(_)
SumOver(rows) ==
  IF rows = {} THEN 0
  ELSE LET i == CHOOSE x \in rows : TRUE
       IN daily[i].volume + SumOver(rows \ {i})
\* the day of the week of a date, 1 for Monday
Weekday(date) == ((date - 1) % 7) + 1

\* C13: weekly resampling of an ascending daily table gives one candle per
\* (ISO year, ISO week) of the input, with the first open, the highest high,
\* the lowest low, the last close and the summed volume of the week's bars,
\* dated the Friday of that week, the candles in ascending date order.
C13_WeeklyCandles ==
  weekly.done =>
    LET keys == {isocalendar(daily[i].date) : i \in 1..Len(daily)}
        out == weekly.out
    IN /\ Len(out) = Cardinality(keys)
       /\ \A key \in keys :
            \E j \in 1..Len(out) :
              LET rows == WeekRows(key)
                  first == CHOOSE i \in rows : \A x \in rows : i <= x
                  last == CHOOSE i \in rows : \A x \in rows : x <= i
              IN /\ isocalendar(out[j].date) = key /\ Weekday(out[j].date) = 5
                 /\ out[j].open = daily[first].open
                 /\ out[j].close = daily[last].close
                 /\ \E i \in rows : out[j].high = daily[i].high
                 /\ \A i \in rows : out[j].high >= daily[i].high
                 /\ \E i \in rows : out[j].low = daily[i].low
                 /\ \A i \in rows : out[j].low <= daily[i].low
                 /\ out[j].volume = SumOver(rows)
       /\ \A j \in 1..Len(out) : \A k \in 1..Len(out) :
            j < k => out[j].date < out[k].date
\* three bars over the turn of the year: two of 2024's week 52, one of
\* 2025's week 1, resampled to two candles
C13_W_AcrossNewYear ==
  /\ weekly.done /\ Len(daily) = 3 /\ Len(weekly.out) = 2
  /\ isocalendar(daily[1].date) = [year |-> 2024, week |-> 52]
  /\ isocalendar(daily[2].date) = [year |-> 2024, week |-> 52]
  /\ isocalendar(daily[3].date) = [year |-> 2025, week |-> 1]
  /\ daily[1].open # daily[2].open /\ daily[1].close # daily[2].close
  /\ weekly.out[1].volume = daily[1].volume + daily[2].volume

\* Two configs hold the same keys with the same values.
SameMapping(a, b) == {a.v[i] : i \in 1..Len(a.v)} = {b.v[i] : i \in 1..Len(b.v)}

\* C14: make_cache_key does not depend on the insertion order of the
\* config's keys: configs that are equal as mappings, list values included,
\* give the same key for the same symbol and timeframe.
C14_KeyIgnoresInsertionOrder ==
  (key_a # NoKey /\ SameMapping(cfg_a, cfg_b)) => key_a = key_b
\* the same three entries, one of them a list of two periods, inserted in
\* two different orders
C14_W_Reordered ==
  /\ key_a # NoKey /\ key_a = key_b
  /\ SameMapping(cfg_a, cfg_b) /\ cfg_a # cfg_b
  /\ Len(cfg_a.v) = 3 /\ cfg_a.v[1] = cfg_b.v[3]
  /\ HasKey(cfg_a, "sma") /\ Len(Get(cfg_a, "sma").v) = 2

\* A table of one row with the close and the value of one indicator column.
OneRow(close, col, value) == Table(<<Val(close)>>, {col}, [c \in {col} |-> <<Val(value)>>])

\* C17: near_ma is true iff |last close - MA| / MA * 100 <= tolerance_pct,
\* and false when the column is absent, the MA is NaN or the MA is 0;
\* close = 100, MA = 100, tolerance 1 is true and MA = 110 is false.
C17_NearMa ==
  /\ (bres.st = "ok" /\ bres.fn.op = "near_ma" /\ pres # "none") =>
       LET n == Len(df.close)
           col == bres.fn.col
           Near == /\ n >= 1 /\ col \in df.cols
                   /\ ~df.data[col][n].nan /\ df.data[col][n].x # 0
                   /\ ~df.close[n].nan
                   /\ LET ma == df.data[col][n].x
                          diff == Abs(df.close[n].x - ma) * 100
                      IN IF ma > 0 THEN diff <= bres.fn.arg * ma
                         ELSE diff >= bres.fn.arg * ma
       IN pres = PyBool(Near)
  /\ Call(near_ma(sma_col(50), 1), OneRow(100, sma_col(50), 100)) = "True"
  /\ Call(near_ma(sma_col(50), 1), OneRow(100, sma_col(50), 110)) = "False"
\* a close that is off the MA by exactly the tolerance
C17_W_AtTolerance ==
  /\ bres.st = "ok" /\ bres.fn.op = "near_ma" /\ pres = "True"
  /\ bres.fn.arg = 50
  /\ df.close[Len(df.close)] = Val(1)
  /\ df.data[bres.fn.col][Len(df.close)] = Val(2)

\* C18: crossing_up is true iff the second-last row has close < MA and the
\* last row has close > MA; it is false for the reverse transition, for
\* fewer than two rows and when either MA is NaN.
C18_CrossingUp ==
  (bres.st = "ok" /\ bres.fn.op = "crossing_up" /\ pres # "none") =>
    LET n == Len(df.close)
        col == bres.fn.col
        Crossed == /\ n >= 2 /\ col \in df.cols
                   /\ ~df.data[col][n].nan /\ ~df.data[col][n - 1].nan
                   /\ ~df.close[n].nan /\ ~df.close[n - 1].nan
                   /\ df.close[n - 1].x < df.data[col][n - 1].x
                   /\ df.close[n].x > df.data[col][n].x
    IN pres = PyBool(Crossed)
\* a close below the MA on the second-last row and above it on the last
C18_W_Crossed ==
  /\ bres.st = "ok" /\ bres.fn.op = "crossing_up" /\ pres = "True"
  /\ Len(df.close) = 2
  /\ df.close[1].x < df.data[bres.fn.col][1].x
  /\ df.close[2].x > df.data[bres.fn.col][2].x

\* C15: in every iteration, on a hit and on a miss, the table handed to the
\* predicate is an object other than every table the cache holds.
C15_PredicateGetsCopy ==
  ipc = "rule" => df_ref \notin Live(_CACHE)

\* The iteration has called the function f.
Did(f) == \E i \in 1..Len(called) : called[i] = f

\* C19: load_prices, get_tf_candles and apply_indicators are called for a
\* symbol only when its cache lookup missed, none of them on a hit, and the
\* predicate is called for every symbol that is neither skipped nor stopped
\* by an exception.
C19_LoadOnlyOnMiss ==
  /\ \A f \in {"load_prices", "get_tf_candles", "apply_indicators", "set_cache"} :
       Did(f) => ~ihit
  /\ Did("rule_fn") =>
       called = IF ihit THEN <<"get_cached", "rule_fn">>
                ELSE <<"get_cached", "load_prices", "get_tf_candles",
                       "apply_indicators", "set_cache", "rule_fn">>
  /\ (ipc = "end" /\ ~Did("rule_fn")) =>
       /\ iend \in {"skip_empty", "skip_short", "error"}
       /\ iend = "error" => called[Len(called)] = "get_tf_candles"
\* an iteration whose lookup hit and whose predicate matched
C19_W_HitThenRule ==
  /\ ipc = "end" /\ ihit /\ iend = "match"
  /\ called = <<"get_cached", "rule_fn">>
  /\ Len(heap) > Cardinality(Live(_CACHE))

\* C20: an indicator call returns a new table and leaves the one it was
\* given with the columns and values it had.
C20_IndicatorsLeaveInputAlone ==
  ind.returned # 0 =>
    (ind.returned # ind.given /\ heap[ind.given] = ind.before)

RECURSIVE TreeHolds(_, _)
TreeHolds(r, d) ==
  IF HasKey(r, "AND")
  THEN \A i \in 1..Len(Get(r, "AND").v) : TreeHolds(Get(r, "AND").v[i], d)
  ELSE IF HasKey(r, "OR")
  THEN \E i \in 1..Len(Get(r, "OR").v) : TreeHolds(Get(r, "OR").v[i], d)
  ELSE Call(build_rule(r).fn, d) = "True"

\* C21: the predicate compiled from an AND node returns true iff every
\* compiled child returns true, the one compiled from an OR node iff at least
\* one does, at every nesting of the nodes.
C21_AndOrSemantics ==
  pres # "none" => pres = PyBool(TreeHolds(rule, df))
\* an AND over a leaf and a nested OR, true although one child of the OR is
\* false
C21_W_NestedOrUnderAnd ==
  /\ pres = "True" /\ bres.fn.op = "AND" /\ Len(bres.fn.kids) = 2
  /\ bres.fn.kids[1].op = "OR"
  /\ \E i \in 1..Len(bres.fn.kids[1].kids) : Call(bres.fn.kids[1].kids[i], df) = "False"

\* The grammar Rule := {"AND": [Rule, ...]} | {"OR": [Rule, ...]} |
\* {leaf_name: params_object}.
RECURSIVE InGrammar(_)
InGrammar(r) ==
  /\ r.t = "dict" /\ Len(r.v) = 1
  /\ IF r.v[1].k \in {"AND", "OR"}
     THEN /\ r.v[1].t = "list" /\ Len(r.v[1].v) > 0
          /\ \A i \in 1..Len(r.v[1].v) : InGrammar(r.v[1].v[i])
     ELSE r.v[1].t = "dict"

\* C22: validate_rule rejects every input outside the grammar: a non-object,
\* an AND or OR whose children are empty or not a list, and an object with
\* more than one key, an AND or OR beside another key included.
C22_RejectsOffGrammar ==
  vres = "ok" => InGrammar(rule)

\* C23: validate_rule accepts a rule tree iff build_rule compiles it without
\* raising, and both reject an AND or OR with an empty list of children.
C23_ValidatorCompilerAgree ==
  (vres # "none" /\ bres.st # "none") =>
    /\ vres = "ok" <=> bres.st = "ok"
    /\ rule \in {Node("AND", <<>>), Node("OR", <<>>)} => (vres # "ok" /\ bres.st # "ok")

\* No request is inside update_data and no task is scheduled or running.
Quiet ==
  \A r \in Requests : upc[r] \in {"idle", "done"} /\ task[r] \in {"none", "done"}
\* A request has set the flag and not yet scheduled its task, or a task is
\* scheduled, running or about to reset the flag.
Owned ==
  \E r \in Requests :
    \/ upc[r] \in {"set_message", "add_task"}
    \/ task[r] \in {"scheduled", "running", "finally"}
FlagReset == ~update_state.running /\ update_state.message = "Idle"

\* C24: once a refresh task has finished its run_fetch_all call, returned or
\* raised, the flag is eventually reset to not running with message "Idle";
\* when nothing is in progress the flag is reset, so a later POST /update is
\* accepted; and the flag is never set with no task pending or running.
C24_FlagResetAfterRefresh ==
  /\ \A r \in Requests : (task[r] = "finally") ~> FlagReset
  /\ [](Quiet => FlagReset)
  /\ [](update_state.running => Owned)
\* two refreshes were started and have finished, and the flag is reset
C24_W_TwoRefreshesDone ==
  /\ \A r \in {1, 2} : reply[r] = "started" /\ task[r] = "done"
  /\ FlagReset /\ last_price_update > 0

\* C25: under any interleaving of get_cached, set_cache and clear_cache calls,
\* whenever no cache operation is in progress the table map and the
\* timestamp map have the same key set.
C25_SameKeysWhenQuiet ==
  (\A th \in Threads : tpc[th] = "idle") => DOMAIN _CACHE = DOMAIN _CACHE_TS

\* C26: under any interleaving with concurrent set_cache, clear_cache or
\* expiring get_cached calls, get_cached never raises and returns a miss or
\* a table stored for its key, and no get_cached evicts as expired a table
\* assigned by a set_cache less than the TTL ago.
C26_GetCachedSafeUnderRaces ==
  /\ [](\A th \in Threads :
          /\ tret[th].st # "KeyError"
          /\ tret[th].st = "hit" => <<targ[th].key, tret[th].df>> \in written)
  /\ [][\A th \in Threads :
          (tpc[th] = "get56" /\ tpc'[th] = "get57" /\ targ[th].key \in DOMAIN _CACHE)
            => now - wrote[targ[th].key] > DEFAULT_TTL]_vars

\* The table the iteration of the i-th symbol evaluated: the one the cache
\* holds for it (no entry expires while a scan runs).
Evaluated(i) == _CACHE[make_cache_key(symbols[i], timeframe, indicator_config)]
\* The rows of the i-th symbol's resampled history in the store.
HistoryRows(i) == get_tf_candles(load_prices(prices, symbols[i]), timeframe).df.rows

\* C27: in every run_scan call, whatever earlier scans left in the cache, the
\* predicate is evaluated only on tables of at least the call's min_bars rows:
\* a symbol whose resampled history is shorter is neither evaluated nor
\* returned, on a hit as on a miss.
C27_EvaluatedOnlyWithMinBars ==
  spc \in {"loop", "done"} =>
    \A i \in 1..Len(log) :
      log[i] \in {"match", "nomatch"} =>
        /\ Evaluated(i).rows >= min_bars
        /\ HistoryRows(i) >= min_bars

\* ------------------------------------------------------- indicator pipeline
\* Indicator configs given to apply_indicators: up to MaxList MACD triples,
\* repeated ones included.
MacdTriples ==
  {List(<<Num(f), Num(s), Num(g)>>) :
     f \in 1..MaxPeriod, s \in 1..MaxPeriod, g \in 1..MaxPeriod}
IndConfigs ==
  {Config(p, p, p, macd) :
     p \in PeriodLists(1), macd \in UNION {[1..m -> MacdTriples] : m \in 0..MaxList}}

\* df = apply_indicators(df, indicator_config)
ApplyIndicators ==
  /\ ~ind_done
  /\ ind_df' = apply_indicators(ind_df, ind_config)
  /\ ind_done' = TRUE
  /\ UNCHANGED <<ind_config, varsRule, varsBars, varsCache, varsApi, prices, varsScan,
                 varsUpdate, varsTf, varsKey, varsObj, varsEntry, varsRace>>
InitInd ==
  /\ RuleIdle /\ BarsIdle /\ CacheIdle /\ StoreIdle /\ ScanIdle /\ UpdateIdle /\ TfIdle
  /\ KeyIdle /\ ObjIdle /\ EntryIdle /\ RaceIdle
  /\ ind_config \in IndConfigs
  /\ ind_df \in {ScanTable(s, n, {}) : s \in Symbols, n \in 0..MaxBars}
  /\ ind_done = FALSE
NextInd == ApplyIndicators
SpecInd == InitInd /\ [][NextInd]_vars

\* The periods and the MACD triples the config asks for.
Periods(kind) ==
  {ConfigList(ind_config, kind)[i].n : i \in 1..Len(ConfigList(ind_config, kind))}
Triples ==
  {<<t.v[1].n, t.v[2].n, t.v[3].n>> :
     t \in {ConfigList(ind_config, "macd")[i] : i \in 1..Len(ConfigList(ind_config, "macd"))}}
Enriched == ind_done /\ ~IsEmpty(ind_df)

\* C28: for every indicator the config asks for, the column name the compiler
\* resolves (SMA_<p>, EMA_<p>, RSI_<p>, MACD_<f>_<s>_<g> and its signal) is
\* a column the indicator pipeline has added to the table.
C28_ResolvedColumnsExist ==
  Enriched =>
    /\ \A p \in Periods("sma") : sma_col(p) \in ind_df.cols
    /\ \A p \in Periods("ema") : ema_col(p) \in ind_df.cols
    /\ \A p \in Periods("rsi") : rsi_col(p) \in ind_df.cols
    /\ \A t \in Triples :
         /\ macd_cols(t[1], t[2], t[3])[1] \in ind_df.cols
         /\ macd_cols(t[1], t[2], t[3])[2] \in ind_df.cols
\* The part of C28 about SMA columns alone.
C28_SmaColumnsExist ==
  Enriched => \A p \in Periods("sma") : sma_col(p) \in ind_df.cols

\* The three columns add_macd writes for a triple.
OwnColumns(t) == {macd_col(t[1], t[2]), signal_col(t[3]), hist_col}

\* C29: when the config lists several distinct MACD triples, every triple's
\* macd, signal and histogram columns are in the table (none skipped) and no
\* column belongs to two distinct triples (none shared or overwritten).
C29_EachTripleOwnColumns ==
  Enriched =>
    /\ \A t \in Triples : OwnColumns(t) \subseteq ind_df.cols
    /\ \A t \in Triples : \A u \in Triples :
         t # u => OwnColumns(t) \cap OwnColumns(u) = {}

\* ------------------------------------------------- scans over a fixed store
\* run_scan called again and again while no bar is fetched: the store is the
\* one the first scan found.
InitWarm ==
  /\ RuleIdle /\ BarsIdle /\ CacheIdle /\ ScanIdle /\ UpdateIdle /\ TfIdle
  /\ KeyIdle /\ ObjIdle /\ EntryIdle /\ RaceIdle /\ IndIdle
  /\ prices \in [Symbols -> 0..MaxBars]
NextWarm == StartScan \/ ScanStep \/ ScanReturn \/ ScanOver \/ ScanTick
SpecWarm == InitWarm /\ [][NextWarm]_vars

\* The same call started from an empty cache, no call failing on the way.
ColdScan ==
  run_scan(EmptyDict, EmptyDict, now, prices, symbols, timeframe, indicator_config,
           rule_fn, min_bars)
\* The environment made no iteration of the call fail: an iteration ended
\* with an exception only where the predicate itself raises.
NoFailure == \A i \in 1..Len(log) : log[i] = "error" => ColdScan.log[i] = "error"
\* Every cached table has the rows the call asks for.
CacheMeetsMinBars == \A k \in DOMAIN _CACHE : _CACHE[k].rows >= min_bars

\* C30: with the store unchanged, a run_scan call that returns, on whatever
\* cache earlier run_scan calls have left, returns the list the same call
\* returns from an empty cache.
C30_WarmEqualsCold ==
  (spc = "done" /\ NoFailure) => results = ColdScan.results
\* C30 for the calls that find no cached table shorter than their min_bars.
C30_WarmEqualsColdWhenLongEnough ==
  (spc = "done" /\ NoFailure /\ CacheMeetsMinBars) => results = ColdScan.results


====
